---- MODULE Spec2Model ----
(***************************************************************************)
(* Model of miBotNotificationRegister: the storage layer (database.py) and *)
(* the conversation handlers of the bot (bot.py).                          *)
(*                                                                         *)
(* Texts are sequences of code points, so that upper(), strip() and the    *)
(* byte order of the UNIQUE index are computed, not assumed.               *)
(***************************************************************************)
EXTENDS Integers, Sequences, FiniteSets, TLC

VARIABLES
    students,    \* rows of table students (a set of records)
    users,       \* rows of table users (a set of records)
    seq,         \* sqlite_sequence of students: largest id ever committed
    now,         \* CURRENT_TIMESTAMP of the last INSERT, in whole seconds
    user_data,   \* context.user_data of the user: key -> value
    conv,        \* state of register_conv_handler in the private chat
    new_conv,    \* state of new_student_conv_handler
    shown,       \* callback_data of the buttons the bot has sent so far
    teclado,     \* the buttons of the keyboard of the flow message
    edit_conv,   \* state of edit_conv_handler
    files,       \* cct.json and datos_estudiante.json as open() finds them
    lockfile,    \* /tmp/mibot_<hash>.lock: the inode at the path and the flocks
    procs,       \* the processes started with the same token
    connection,  \* the sqlite3 connection of the storage call under way
    last         \* the last call or handler that ran, with its outcome

dbvars == <<students, users, seq, now>>
botvars == <<user_data, conv, new_conv, shown, teclado>>
lockvars == <<lockfile, procs>>
othervars == <<edit_conv, files, lockfile, procs, connection>>
vars ==
    <<students, users, seq, now, user_data, conv, new_conv, shown, teclado,
      edit_conv, files, lockfile, procs, connection, last>>

----------------------------------------------------------------------------
(* Bounds *)

MaxId == 2          \* ids handed out when the storage layer is called directly
MaxReg == 2         \* ids handed out in one run of the bot
MaxClock == 1       \* seconds the clock can advance in one run
NumProcs == 3       \* processes started with the same token
MaxInode == 3       \* lock files created in one run
MaxOps == 3         \* storage calls made one after the other

----------------------------------------------------------------------------
(* Texts *)

None == <<0>>                         \* Python None / SQL NULL
Juan == <<74, 117, 97, 110>>          \* "Juan"
Ana == <<65, 110, 97>>                \* "Ana"
Luis == <<76, 117, 105, 115>>         \* "Luis"
Perez == <<80, 233, 114, 101, 122>>   \* "Perez" with e-acute (233)
Lopez == <<76, 243, 112, 101, 122>>   \* "Lopez" with o-acute (243)
CCT_OK == <<49, 52, 68>>              \* "14D", a key of cct.json
CCT_LOWER == <<49, 52, 100>>          \* "14d"
CCT_BAD == <<88, 88>>                 \* "XX", not in cct.json
EmptyText == <<>>
Space == <<32>>

Whitespace == {9, 10, 11, 12, 13, 32}

\* str.upper() and str.lower(), on ASCII and Latin-1 letters
UpperChar(c) ==
    IF c \in 97..122 \/ (c \in 224..254 /\ c # 247) THEN c - 32 ELSE c

LowerChar(c) ==
    IF c \in 65..90 \/ (c \in 192..222 /\ c # 215) THEN c + 32 ELSE c

Upper(t) == [i \in 1..Len(t) |-> UpperChar(t[i])]

Lower(t) == [i \in 1..Len(t) |-> LowerChar(t[i])]

\* str.strip()
RECURSIVE LStrip(_)
LStrip(t) ==
    IF t # <<>> /\ Head(t) \in Whitespace THEN LStrip(Tail(t)) ELSE t

RECURSIVE RStrip(_)
RStrip(t) ==
    IF t # <<>> /\ t[Len(t)] \in Whitespace
    THEN RStrip(SubSeq(t, 1, Len(t) - 1))
    ELSE t

Strip(t) == RStrip(LStrip(t))

\* Python truthiness of an Optional[str]
Truthy(v) == v # None /\ v # EmptyText

\* a < b in the byte order of SQLite's BINARY collation
RECURSIVE TextLess(_, _)
TextLess(a, b) ==
    IF b = <<>> THEN FALSE
    ELSE IF a = <<>> THEN TRUE
    ELSE IF Head(a) # Head(b) THEN Head(a) < Head(b)
    ELSE TextLess(Tail(a), Tail(b))

----------------------------------------------------------------------------
(* database.py *)

ChatIds == {1001, 1002}

StudentColumns ==
    {"id", "telegram_id", "clave_instituto", "nombre_estudiante",
     "apellidos_estudiante", "grado", "grupo", "nivel_escolar",
     "datos_estudiante", "created_at"}

\* created_at and updated_at of users are read by no query and left out
UserColumns ==
    {"telegram_id", "apellidos_autorizado", "nombre_autorizado",
     "datos_autorizado"}

\* json.dumps of the empty dict, the DEFAULT of both side-document columns
EmptyJson == <<123, 125>>

\* NOT NULL text columns of students (id and telegram_id are always given)
StudentNotNull ==
    {"clave_instituto", "nombre_estudiante", "apellidos_estudiante"}

\* UNIQUE(telegram_id, apellidos_estudiante, nombre_estudiante)
SameUniqueKey(r1, r2) ==
    /\ r1.telegram_id = r2.telegram_id
    /\ r1.apellidos_estudiante = r2.apellidos_estudiante
    /\ r1.nombre_estudiante = r2.nombre_estudiante

\* students without its UNIQUE constraint
StudentConstraintsOk_NoUnique(row, others) ==
    \A c \in StudentNotNull : row[c] # None

\* the constraints the table students puts on a row that is to be stored
\* next to the rows of others
StudentConstraintsOk(row, others) ==
    /\ \A c \in StudentNotNull : row[c] # None
    /\ \A o \in others : ~SameUniqueKey(o, row)

\* users without its PRIMARY KEY: the insert adds a second row
InsertOrReplaceUser_NoKey(us, row) == us \cup {row}

\* INSERT OR REPLACE INTO users: telegram_id is the PRIMARY KEY
InsertOrReplaceUser(us, row) ==
    {u \in us : u.telegram_id # row.telegram_id} \cup {row}

\* Rows of one identity in the order of
\*   WHERE telegram_id = ? ORDER BY created_at ASC
\* Rows of one second come in the order of the UNIQUE index
\* (apellidos_estudiante, nombre_estudiante), through which SQLite reads them.
RowBefore(r1, r2) ==
    \/ r1.created_at < r2.created_at
    \/ /\ r1.created_at = r2.created_at
       /\ \/ TextLess(r1.apellidos_estudiante, r2.apellidos_estudiante)
          \/ /\ r1.apellidos_estudiante = r2.apellidos_estudiante
             /\ TextLess(r1.nombre_estudiante, r2.nombre_estudiante)

RECURSIVE OrderRows(_)
OrderRows(rows) ==
    IF rows = {} THEN <<>>
    ELSE LET first == CHOOSE r \in rows : \A o \in rows \ {r} : RowBefore(r, o)
         IN  <<first>> \o OrderRows(rows \ {first})

OwnedBy(sts, tid) == {r \in sts : r.telegram_id = tid}

get_students(sts, tid) == OrderRows(OwnedBy(sts, tid))

get_student_count(sts, tid) == Cardinality(OwnedBy(sts, tid))

\* what fetchone() gives when no row matches (no row has id 0)
NoRow == [id |-> 0]

\* get_student: the row, or NoRow. student_id 0 stands for "not given".
get_student(sts, tid, student_id) ==
    IF student_id # 0
    THEN IF \E r \in sts : r.telegram_id = tid /\ r.id = student_id
         THEN CHOOSE r \in sts : r.telegram_id = tid /\ r.id = student_id
         ELSE NoRow
    ELSE IF OwnedBy(sts, tid) = {} THEN NoRow
         ELSE Head(get_students(sts, tid))

student_exists(sts, tid) == get_student(sts, tid, 0) # NoRow

get_user(us, tid) ==
    IF \E u \in us : u.telegram_id = tid
    THEN CHOOSE u \in us : u.telegram_id = tid
    ELSE NoRow

\* a dict of extra fields: the pairs <<name, value>> in insertion order
EmptyDict == <<>>

DictHas(d, k) == \E i \in 1..Len(d) : d[i][1] = k

\* an assignment d[k] = v that stores nothing
DictPut_Nada(d, k, v) == d

DictPut(d, k, v) ==
    IF DictHas(d, k)
    THEN [i \in 1..Len(d) |-> IF d[i][1] = k THEN <<k, v>> ELSE d[i]]
    ELSE Append(d, <<k, v>>)

\* the values of a dict other than texts and None: a number n, True, False,
\* and a dict or list held as a value. No code point is negative, so none of
\* them is a text.
Num(n) == <<-1, n>>
PyTrue == <<-2, 1>>
PyFalse == <<-2, 0>>
Container == <<-3>>

IsNum(v) == Len(v) = 2 /\ v[1] = -1

\* str(n) of an integer
RECURSIVE Digits(_)
Digits(n) == IF n < 10 THEN <<48 + n>> ELSE Digits(n \div 10) \o <<48 + (n % 10)>>

IntText(n) == IF n < 0 THEN <<45>> \o Digits(0 - n) ELSE Digits(n)

HexDigit(n) == IF n < 10 THEN 48 + n ELSE 87 + n

\* serialize_json: json.dumps(data, ensure_ascii=False) of such a dict
EscapeChar(c) ==
    IF c = 34 THEN <<92, 34>>
    ELSE IF c = 92 THEN <<92, 92>>
    ELSE IF c = 10 THEN <<92, 110>>
    ELSE IF c = 13 THEN <<92, 114>>
    ELSE IF c = 9 THEN <<92, 116>>
    ELSE IF c = 8 THEN <<92, 98>>
    ELSE IF c = 12 THEN <<92, 102>>
    ELSE IF c < 32 THEN <<92, 117, 48, 48, HexDigit(c \div 16), HexDigit(c % 16)>>
    ELSE <<c>>

RECURSIVE Escape(_)
Escape(t) == IF t = <<>> THEN <<>> ELSE EscapeChar(Head(t)) \o Escape(Tail(t))

Quote(t) == <<34>> \o Escape(t) \o <<34>>

JsonValue(v) ==
    IF v = None THEN <<110, 117, 108, 108>>
    ELSE IF v = PyTrue THEN <<116, 114, 117, 101>>
    ELSE IF v = PyFalse THEN <<102, 97, 108, 115, 101>>
    ELSE IF IsNum(v) THEN IntText(v[2])
    ELSE Quote(v)

RECURSIVE JsonItems(_)
JsonItems(d) ==
    IF d = <<>> THEN <<>>
    ELSE Quote(Head(d)[1]) \o <<58, 32>> \o JsonValue(Head(d)[2])
         \o (IF Tail(d) = <<>> THEN <<>> ELSE <<44, 32>> \o JsonItems(Tail(d)))

serialize_json(d) == <<123>> \o JsonItems(d) \o <<125>>

\* a Python object json.loads can return, with its type
PyObj(type, value) == [type |-> type, value |-> value]

\* the value as it sits inside a dict or a list
Encode(o) ==
    IF o.type \in {"dict", "list"} THEN Container
    ELSE IF o.type = "int" THEN Num(o.value)
    ELSE IF o.type = "bool" THEN (IF o.value THEN PyTrue ELSE PyFalse)
    ELSE o.value

\* the result of scanning one piece of a JSON text: the object and the
\* position after it, or the failure that raises json.JSONDecodeError
Scanned(o, i) == [ok |-> TRUE, v |-> o, i |-> i]
JSONDecodeError == [ok |-> FALSE, v |-> PyObj("NoneType", None), i |-> 0]

At(t, i) == IF i >= 1 /\ i <= Len(t) THEN t[i] ELSE -1

JsonWhitespace == {9, 10, 13, 32}

RECURSIVE SkipWs(_, _)
SkipWs(t, i) == IF At(t, i) \in JsonWhitespace THEN SkipWs(t, i + 1) ELSE i

IsDigit(c) == c \in 48..57

HexValue(c) ==
    IF c \in 48..57 THEN c - 48
    ELSE IF c \in 97..102 THEN c - 87
    ELSE IF c \in 65..70 THEN c - 55
    ELSE -1

\* the body of a string after its opening quote (strict: no control character)
RECURSIVE ScanStringBody(_, _, _)
ScanStringBody(t, i, acc) ==
    LET c == At(t, i)
        e == At(t, i + 1)
        h == [k \in 1..4 |-> HexValue(At(t, i + 1 + k))]
    IN  IF c = -1 \/ (c >= 0 /\ c < 32) THEN JSONDecodeError
        ELSE IF c = 34 THEN Scanned(PyObj("str", acc), i + 1)
        ELSE IF c # 92 THEN ScanStringBody(t, i + 1, Append(acc, c))
        ELSE IF e \in {34, 92, 47} THEN ScanStringBody(t, i + 2, Append(acc, e))
        ELSE IF e = 98 THEN ScanStringBody(t, i + 2, Append(acc, 8))
        ELSE IF e = 102 THEN ScanStringBody(t, i + 2, Append(acc, 12))
        ELSE IF e = 110 THEN ScanStringBody(t, i + 2, Append(acc, 10))
        ELSE IF e = 114 THEN ScanStringBody(t, i + 2, Append(acc, 13))
        ELSE IF e = 116 THEN ScanStringBody(t, i + 2, Append(acc, 9))
        ELSE IF e = 117 /\ \A k \in 1..4 : h[k] >= 0
             THEN ScanStringBody(t, i + 6,
                      Append(acc, ((h[1] * 16 + h[2]) * 16 + h[3]) * 16 + h[4]))
        ELSE JSONDecodeError

\* the digits of an integer from position i on: value so far and position
RECURSIVE ScanDigits(_, _, _)
ScanDigits(t, i, n) ==
    IF IsDigit(At(t, i)) THEN ScanDigits(t, i + 1, n * 10 + (At(t, i) - 48))
    ELSE <<n, i>>

\* an integer: -? (0 | [1-9][0-9]*). Fractions and exponents are not scanned.
ScanNumber(t, i) ==
    LET neg == At(t, i) = 45
        j == IF neg THEN i + 1 ELSE i
        d == IF At(t, j) = 48 THEN <<0, j + 1>> ELSE ScanDigits(t, j, 0)
    IN  IF ~IsDigit(At(t, j)) THEN JSONDecodeError
        ELSE Scanned(PyObj("int", IF neg THEN 0 - d[1] ELSE d[1]), d[2])

ScanLiteral(t, i, word, o) ==
    IF i + Len(word) - 1 <= Len(t) /\ SubSeq(t, i, i + Len(word) - 1) = word
    THEN Scanned(o, i + Len(word))
    ELSE JSONDecodeError

RECURSIVE ScanValue(_, _)
RECURSIVE ScanMembers(_, _, _)
RECURSIVE ScanElements(_, _, _)

\* the members of an object from the quote of a key on
ScanMembers(t, i, acc) ==
    IF At(t, i) # 34 THEN JSONDecodeError
    ELSE LET key == ScanStringBody(t, i + 1, <<>>)
             colon == SkipWs(t, key.i)
             val == ScanValue(t, SkipWs(t, colon + 1))
             after == SkipWs(t, val.i)
             dict == DictPut(acc, key.v.value, Encode(val.v))
         IN  IF ~key.ok \/ At(t, colon) # 58 THEN JSONDecodeError
             ELSE IF ~val.ok THEN JSONDecodeError
             ELSE IF At(t, after) = 125 THEN Scanned(PyObj("dict", dict), after + 1)
             ELSE IF At(t, after) = 44 THEN ScanMembers(t, SkipWs(t, after + 1), dict)
             ELSE JSONDecodeError

\* the elements of an array from the first character of an element on
ScanElements(t, i, acc) ==
    LET val == ScanValue(t, i)
        after == SkipWs(t, val.i)
        list == Append(acc, Encode(val.v))
    IN  IF ~val.ok THEN JSONDecodeError
        ELSE IF At(t, after) = 93 THEN Scanned(PyObj("list", list), after + 1)
        ELSE IF At(t, after) = 44 THEN ScanElements(t, SkipWs(t, after + 1), list)
        ELSE JSONDecodeError

ScanValue(t, i) ==
    LET c == At(t, i)
    IN  IF c = 34 THEN ScanStringBody(t, i + 1, <<>>)
        ELSE IF c = 123
             THEN IF At(t, SkipWs(t, i + 1)) = 125
                  THEN Scanned(PyObj("dict", EmptyDict), SkipWs(t, i + 1) + 1)
                  ELSE ScanMembers(t, SkipWs(t, i + 1), EmptyDict)
        ELSE IF c = 91
             THEN IF At(t, SkipWs(t, i + 1)) = 93
                  THEN Scanned(PyObj("list", <<>>), SkipWs(t, i + 1) + 1)
                  ELSE ScanElements(t, SkipWs(t, i + 1), <<>>)
        ELSE IF c = 110 THEN ScanLiteral(t, i, <<110, 117, 108, 108>>, PyObj("NoneType", None))
        ELSE IF c = 116 THEN ScanLiteral(t, i, <<116, 114, 117, 101>>, PyObj("bool", TRUE))
        ELSE IF c = 102 THEN ScanLiteral(t, i, <<102, 97, 108, 115, 101>>, PyObj("bool", FALSE))
        ELSE IF c = 45 \/ IsDigit(c) THEN ScanNumber(t, i)
        ELSE JSONDecodeError

\* json.loads: one value between whitespace, and nothing after it
loads(t) ==
    LET val == ScanValue(t, SkipWs(t, 1))
    IN  IF val.ok /\ SkipWs(t, val.i) = Len(t) + 1 THEN val ELSE JSONDecodeError

\* a deserialize_json that reads the keys and drops the values
deserialize_json_KeysOnly(data) ==
    IF ~Truthy(data) \/ ~loads(data).ok \/ loads(data).v.type # "dict"
    THEN PyObj("dict", EmptyDict)
    ELSE PyObj("dict", [i \in 1..Len(loads(data).v.value) |->
                            <<loads(data).v.value[i][1], None>>])

\* deserialize_json: json.loads(data) if data else {}, and {} on
\* json.JSONDecodeError
deserialize_json(data) ==
    IF ~Truthy(data) THEN PyObj("dict", EmptyDict)
    ELSE IF loads(data).ok THEN loads(data).v
    ELSE PyObj("dict", EmptyDict)

\* an add_student that commits the guardian upsert before the student INSERT
add_student_KeepUpsert(sts, us, sq, clock, a) ==
    LET us1 == IF Truthy(a.apellidos_autorizado) /\ Truthy(a.nombre_autorizado)
               THEN InsertOrReplaceUser(us,
                        [telegram_id |-> a.telegram_id,
                         apellidos_autorizado |-> a.apellidos_autorizado,
                         nombre_autorizado |-> a.nombre_autorizado,
                         datos_autorizado |-> serialize_json(a.datos_autorizado)])
               ELSE us
        row == [id |-> sq + 1,
                telegram_id |-> a.telegram_id,
                clave_instituto |-> a.clave_instituto,
                nombre_estudiante |-> a.nombre_estudiante,
                apellidos_estudiante |-> a.apellidos_estudiante,
                grado |-> a.grado,
                grupo |-> a.grupo,
                nivel_escolar |-> a.nivel_escolar,
                datos_estudiante |-> serialize_json(a.datos_estudiante),
                created_at |-> clock]
    IN  IF StudentConstraintsOk(row, sts)
        THEN [ret |-> TRUE, students |-> sts \cup {row}, users |-> us1, seq |-> sq + 1]
        ELSE [ret |-> FALSE, students |-> sts, users |-> us1, seq |-> sq]

\* add_student: the new tables and the returned value. a holds the keyword
\* arguments; a dict argument left out is the empty dict that "or {}" makes
\* of it.
add_student(sts, us, sq, clock, a) ==
    LET us1 == IF Truthy(a.apellidos_autorizado) /\ Truthy(a.nombre_autorizado)
               THEN InsertOrReplaceUser(us,
                        [telegram_id |-> a.telegram_id,
                         apellidos_autorizado |-> a.apellidos_autorizado,
                         nombre_autorizado |-> a.nombre_autorizado,
                         datos_autorizado |-> serialize_json(a.datos_autorizado)])
               ELSE us
        row == [id |-> sq + 1,
                telegram_id |-> a.telegram_id,
                clave_instituto |-> a.clave_instituto,
                nombre_estudiante |-> a.nombre_estudiante,
                apellidos_estudiante |-> a.apellidos_estudiante,
                grado |-> a.grado,
                grupo |-> a.grupo,
                nivel_escolar |-> a.nivel_escolar,
                datos_estudiante |-> serialize_json(a.datos_estudiante),
                created_at |-> clock]
    IN  IF StudentConstraintsOk(row, sts)
        THEN [ret |-> TRUE, students |-> sts \cup {row}, users |-> us1, seq |-> sq + 1]
        ELSE \* sqlite3.IntegrityError: rollback, return False
             [ret |-> FALSE, students |-> sts, users |-> us, seq |-> sq]

\* an allow-list that lets the owner column through
allowed_fields_student_Owner ==
    {"clave_instituto", "apellidos_estudiante", "nombre_estudiante",
     "grado", "grupo", "nivel_escolar", "datos_estudiante", "telegram_id"}

allowed_fields_student ==
    {"clave_instituto", "apellidos_estudiante", "nombre_estudiante",
     "grado", "grupo", "nivel_escolar", "datos_estudiante"}

allowed_fields_user ==
    {"apellidos_autorizado", "nombre_autorizado", "datos_autorizado"}

\* a WHERE of update_student that leaves out the owner
UpdateTargets_AnyOwner(sts, tid, student_id) ==
    IF student_id # 0
    THEN {r \in sts : r.id = student_id}
    ELSE IF OwnedBy(sts, tid) = {} THEN {}
         ELSE {Head(get_students(sts, tid))}

\* the rows an UPDATE students ... WHERE of update_student selects
UpdateTargets(sts, tid, student_id) ==
    IF student_id # 0
    THEN {r \in sts : r.telegram_id = tid /\ r.id = student_id}
    ELSE IF OwnedBy(sts, tid) = {} THEN {}
         ELSE {Head(get_students(sts, tid))}

update_student(sts, tid, field, value, student_id) ==
    IF field \notin allowed_fields_student
    THEN [ret |-> FALSE, students |-> sts]
    ELSE IF field \notin StudentColumns
    THEN \* no such column: sqlite3.OperationalError, caught
         [ret |-> FALSE, students |-> sts]
    ELSE LET targets == UpdateTargets(sts, tid, student_id)
             changed == {[r EXCEPT ![field] = value] : r \in targets}
             rest == sts \ targets
         IN  IF \A r \in changed : StudentConstraintsOk(r, rest)
             THEN [ret |-> targets # {}, students |-> rest \cup changed]
             ELSE \* IntegrityError, caught by "except Exception"
                  [ret |-> FALSE, students |-> sts]

update_user(us, tid, field, value) ==
    IF field \notin allowed_fields_user
    THEN [ret |-> FALSE, users |-> us]
    ELSE IF field \notin UserColumns
    THEN [ret |-> FALSE, users |-> us]
    ELSE LET targets == {u \in us : u.telegram_id = tid}
             changed == {[u EXCEPT ![field] = value] : u \in targets}
         IN  IF field \in {"apellidos_autorizado", "nombre_autorizado"} /\ value = None
             THEN \* NOT NULL constraint
                  [ret |-> FALSE, users |-> us]
             ELSE [ret |-> targets # {}, users |-> (us \ targets) \cup changed]

\* a DELETE whose WHERE forgets the id
delete_student_AnyId(sts, tid, student_id) ==
    [ret |-> OwnedBy(sts, tid) # {}, students |-> sts \ OwnedBy(sts, tid)]

\* a DELETE without id that stops after the first row
delete_student_OnlyFirst(sts, tid, student_id) ==
    LET targets == IF student_id # 0
                   THEN {r \in sts : r.telegram_id = tid /\ r.id = student_id}
                   ELSE IF OwnedBy(sts, tid) = {} THEN {}
                        ELSE {Head(get_students(sts, tid))}
    IN  [ret |-> targets # {}, students |-> sts \ targets]

\* a DELETE by id whose WHERE forgets the owner
delete_student_AnyOwner(sts, tid, student_id) ==
    LET targets == IF student_id # 0
                   THEN {r \in sts : r.id = student_id}
                   ELSE OwnedBy(sts, tid)
    IN  [ret |-> targets # {}, students |-> sts \ targets]

delete_student(sts, tid, student_id) ==
    LET targets == IF student_id # 0
                   THEN {r \in sts : r.telegram_id = tid /\ r.id = student_id}
                   ELSE OwnedBy(sts, tid)
    IN  [ret |-> targets # {}, students |-> sts \ targets]

\* the exceptions of sqlite3 that a statement can end with
IntegrityError == "IntegrityError"
OperationalError == "OperationalError"

\* the except clause of each writing method: the exceptions it turns into
\* "return False". get_connection rolls back and raises the exception again,
\* so any other exception leaves the method.
Caught(method) ==
    IF method = "add_student" THEN {IntegrityError}
    ELSE {IntegrityError, OperationalError}

\* how a call of method ends when a statement of it raises err
OnError(method, err) == IF err \in Caught(method) THEN "False" ELSE "raised"

\* one row of FROM students s JOIN users u ON s.telegram_id = u.telegram_id
Joined(s, u) ==
    [nombre_estudiante |-> s.nombre_estudiante,
     apellidos_estudiante |-> s.apellidos_estudiante,
     clave_instituto |-> s.clave_instituto,
     nombre_autorizado |-> u.nombre_autorizado,
     apellidos_autorizado |-> u.apellidos_autorizado,
     chat_id |-> u.telegram_id]

\* get_students_with_authorized: the lists the query can return. The rows of
\* students that have a row of users, ORDER BY s.created_at DESC; SQL leaves
\* the order of rows of one second open.
get_students_with_authorized(sts, us) ==
    LET matched == {s \in sts : get_user(us, s.telegram_id) # NoRow}
        n == Cardinality(matched)
        orders == {o \in [1..n -> matched] :
                      /\ \A i, j \in 1..n : i # j => o[i] # o[j]
                      /\ \A i, j \in 1..n :
                            i < j => o[i].created_at >= o[j].created_at}
    IN  {[i \in 1..n |-> Joined(o[i], get_user(us, o[i].telegram_id))] :
            o \in orders}

----------------------------------------------------------------------------
(* The storage layer called directly *)

NoCall == [op |-> "none"]

\* context.user_data after clear()
EmptySession == [k \in {} |-> TRUE]

\* cct.json and datos_estudiante.json of the repository are in place
FilesInPlace == [cct |-> "ok", datos |-> "ok"]

Procs == 1..NumProcs

\* no lock file at the path, no process started
NoLockFile == [path |-> 0, made |-> 0, flock |-> [i \in 1..MaxInode |-> 0]]
NotStarted == [p \in Procs |-> [pc |-> "off", fd |-> 0]]

\* no storage call under way
NoConnection == [pc |-> "idle"]

Init ==
    /\ students = {}
    /\ users = {}
    /\ seq = 0
    /\ now = 0
    /\ user_data = EmptySession
    /\ conv = "END"
    /\ new_conv = "END"
    /\ shown = {}
    /\ teclado = <<>>
    /\ edit_conv = "END"
    /\ files = FilesInPlace
    /\ lockfile = NoLockFile
    /\ procs = NotStarted
    /\ connection = NoConnection
    /\ last = NoCall

\* CURRENT_TIMESTAMP at an INSERT, in whole seconds. Only the order and the
\* ties of the stamps of stored rows are observed, so the seconds are counted
\* from the INSERT into an empty table: n, the second of the INSERT before,
\* or the one after it.
Clocks(n, sts) ==
    IF sts = {} THEN {n}
    ELSE {n} \cup (IF n < MaxClock THEN {n + 1} ELSE {})

DbNames == {Juan, Ana}
DbGuardians == {<<None, None>>, <<Lopez, Ana>>, <<Lopez, Luis>>}


CallAddStudent ==
    \E tid \in ChatIds, nombre \in DbNames, g \in DbGuardians :
        LET r == add_student(students, users, seq, now,
                     [telegram_id |-> tid, clave_instituto |-> CCT_OK,
                      nombre_estudiante |-> nombre, apellidos_estudiante |-> Perez,
                      grado |-> None, grupo |-> None, nivel_escolar |-> None,
                      datos_estudiante |-> EmptyDict,
                      apellidos_autorizado |-> g[1], nombre_autorizado |-> g[2],
                      datos_autorizado |-> EmptyDict])
        IN  /\ seq < MaxId
            /\ students' = r.students
            /\ users' = r.users
            /\ seq' = r.seq
            /\ last' = [op |-> "add_student", tid |-> tid, nombre |-> nombre,
                        apellidos |-> Perez, guardian |-> g, ret |-> r.ret,
                        hadUser |-> (get_user(users, tid) # NoRow)]
            /\ UNCHANGED <<now, user_data, conv, new_conv, shown, teclado, othervars>>

\* field and value of the update calls: allowed columns, columns that are
\* not allowed, and a name that is no column
UpdStudentArgs ==
    {<<"nombre_estudiante", Ana>>, <<"nombre_estudiante", None>>,
     <<"telegram_id", 1002>>, <<"bogus", Ana>>}

CallUpdateStudent ==
    \E tid \in ChatIds, fv \in UpdStudentArgs, sid \in 0..MaxId :
        LET r == update_student(students, tid, fv[1], fv[2], sid)
        IN  /\ students' = r.students
            /\ last' = [op |-> "update_student", tid |-> tid, field |-> fv[1],
                        value |-> fv[2], sid |-> sid, ret |-> r.ret]
            /\ UNCHANGED <<users, seq, now, user_data, conv, new_conv, shown, teclado, othervars>>

UpdUserArgs ==
    {<<"nombre_autorizado", Luis>>, <<"nombre_autorizado", None>>,
     <<"telegram_id", 1002>>, <<"bogus", Ana>>}

CallUpdateUser ==
    \E tid \in ChatIds, fv \in UpdUserArgs :
        LET r == update_user(users, tid, fv[1], fv[2])
        IN  /\ users' = r.users
            /\ last' = [op |-> "update_user", tid |-> tid, field |-> fv[1],
                        value |-> fv[2], sid |-> 0, ret |-> r.ret]
            /\ UNCHANGED <<students, seq, now, user_data, conv, new_conv, shown, teclado, othervars>>

CallDeleteStudent ==
    \E tid \in ChatIds, sid \in 0..MaxId :
        LET r == delete_student(students, tid, sid)
        IN  /\ students' = r.students
            /\ last' = [op |-> "delete_student", tid |-> tid, sid |-> sid,
                        ret |-> r.ret]
            /\ UNCHANGED <<users, seq, now, user_data, conv, new_conv, shown, teclado, othervars>>

\* a writing method called while another connection holds the lock of the
\* database file: the first statement ends with "database is locked", the
\* transaction is rolled back
WritingMethods == {"add_student", "update_student", "delete_student"}

CallOnLockedDatabase ==
    \E tid \in ChatIds, method \in WritingMethods :
        /\ last' = [op |-> "locked", method |-> method, tid |-> tid,
                    outcome |-> OnError(method, OperationalError)]
        /\ UNCHANGED <<dbvars, botvars, othervars>>

NextDB ==
    \/ CallAddStudent
    \/ CallUpdateStudent
    \/ CallUpdateUser
    \/ CallDeleteStudent
    \/ CallOnLockedDatabase

SpecDB == Init /\ [][NextDB]_vars

----------------------------------------------------------------------------
(* get_connection: a storage call statement by statement *)

\* the tables as a connection sees them
Tables(sts, us, sq) == [students |-> sts, users |-> us, seq |-> sq]

\* an exit of get_connection that commits whatever the body did
get_connection_exit_Commit(err) == "commit"

\* what get_connection does when the body of the with is left: commit()
\* after the yield when no exception came, rollback() in "except Exception"
get_connection_exit(err) == IF err = "none" THEN "commit" ELSE "rollback"

\* the calls made: add_student with and without guardian names, delete_student
ConnCalls ==
    {[method |-> "add_student",
      a |-> [telegram_id |-> tid, clave_instituto |-> CCT_OK,
             nombre_estudiante |-> nombre, apellidos_estudiante |-> Perez,
             grado |-> None, grupo |-> None, nivel_escolar |-> None,
             datos_estudiante |-> EmptyDict,
             apellidos_autorizado |-> g[1], nombre_autorizado |-> g[2],
             datos_autorizado |-> EmptyDict]] :
        tid \in ChatIds, nombre \in DbNames, g \in DbGuardians}
    \cup
    {[method |-> "delete_student",
      a |-> [telegram_id |-> tid, student_id |-> sid]] :
        tid \in ChatIds, sid \in 0..1}

\* the statements the body of the with executes, in their order
Statements(call) ==
    IF call.method = "add_student"
    THEN (IF Truthy(call.a.apellidos_autorizado) /\ Truthy(call.a.nombre_autorizado)
          THEN <<"upsert_user">> ELSE <<>>) \o <<"insert_student">>
    ELSE <<"delete">>

\* cursor.execute of one statement on the tables of the transaction: the
\* tables after it, or the error it raises
Execute(stmt, tx, a, clock) ==
    IF stmt = "upsert_user"
    THEN [err |-> "none", ret |-> TRUE,
          tx |-> [tx EXCEPT !.users =
                     InsertOrReplaceUser(tx.users,
                         [telegram_id |-> a.telegram_id,
                          apellidos_autorizado |-> a.apellidos_autorizado,
                          nombre_autorizado |-> a.nombre_autorizado,
                          datos_autorizado |-> serialize_json(a.datos_autorizado)])]]
    ELSE IF stmt = "insert_student"
    THEN LET row == [id |-> tx.seq + 1,
                     telegram_id |-> a.telegram_id,
                     clave_instituto |-> a.clave_instituto,
                     nombre_estudiante |-> a.nombre_estudiante,
                     apellidos_estudiante |-> a.apellidos_estudiante,
                     grado |-> a.grado,
                     grupo |-> a.grupo,
                     nivel_escolar |-> a.nivel_escolar,
                     datos_estudiante |-> serialize_json(a.datos_estudiante),
                     created_at |-> clock]
         IN  IF StudentConstraintsOk(row, tx.students)
             THEN [err |-> "none", ret |-> TRUE,
                   tx |-> [tx EXCEPT !.students = tx.students \cup {row},
                                     !.seq = tx.seq + 1]]
             ELSE [err |-> IntegrityError, ret |-> FALSE, tx |-> tx]
    ELSE LET r == delete_student(tx.students, a.telegram_id, a.student_id)
         IN  [err |-> "none", ret |-> r.ret,
              tx |-> [tx EXCEPT !.students = r.students]]

\* one step inside get_connection that leaves the stored tables alone
ConnStep(c, op) ==
    /\ connection' = c
    /\ last' = [op |-> op]
    /\ UNCHANGED <<dbvars, botvars, edit_conv, files, lockvars>>

\* conn = sqlite3.connect(self.db_name), before the try: an error leaves
\* the call with no connection made
conn_connect ==
    /\ connection.pc = "idle"
    /\ \E call \in ConnCalls, fails \in BOOLEAN :
        /\ seq < MaxOps
        /\ IF fails
           THEN /\ connection' = connection
                /\ last' = [op |-> "returned", method |-> call.method,
                            res |-> OnError(call.method, OperationalError),
                            log |-> <<>>, base |-> Tables(students, users, seq),
                            call |-> call]
                /\ UNCHANGED <<dbvars, botvars, edit_conv, files, lockvars>>
           ELSE ConnStep([pc |-> "open", call |-> call, stmt |-> 0,
                          base |-> Tables(students, users, seq),
                          tx |-> Tables(students, users, seq),
                          err |-> "none", ret |-> TRUE, log |-> <<"connect">>],
                         "connect")

\* the next cursor.execute of the body
conn_execute ==
    /\ connection.pc = "open"
    /\ connection.stmt < Len(Statements(connection.call))
    /\ \E locked \in BOOLEAN :
        LET r == Execute(Statements(connection.call)[connection.stmt + 1],
                         connection.tx, connection.call.a, now)
        IN  IF locked
            THEN ConnStep([connection EXCEPT !.pc = "failed",
                                             !.err = OperationalError],
                          "execute")
            ELSE IF r.err # "none"
            THEN ConnStep([connection EXCEPT !.pc = "failed", !.err = r.err],
                          "execute")
            ELSE ConnStep([connection EXCEPT !.stmt = connection.stmt + 1,
                                             !.tx = r.tx, !.ret = r.ret],
                          "execute")

\* conn.commit(): the tables of the transaction become the stored ones, or
\* the commit raises and the except clause is entered
conn_commit ==
    /\ \/ /\ connection.pc = "open"
          /\ connection.stmt = Len(Statements(connection.call))
       \/ connection.pc = "failed"
    /\ get_connection_exit(connection.err) = "commit"
    /\ \E fails \in BOOLEAN :
        IF fails
        THEN ConnStep([connection EXCEPT !.pc = "failed",
                                         !.err = OperationalError],
                      "commit")
        ELSE /\ students' = connection.tx.students
             /\ users' = connection.tx.users
             /\ seq' = connection.tx.seq
             /\ connection' = [connection EXCEPT
                                  !.pc = "ended",
                                  !.log = connection.log \o <<"commit">>]
             /\ last' = [op |-> "commit"]
             /\ UNCHANGED <<now, botvars, edit_conv, files, lockvars>>

\* conn.rollback(): the transaction is dropped
conn_rollback ==
    /\ connection.pc = "failed"
    /\ get_connection_exit(connection.err) = "rollback"
    /\ ConnStep([connection EXCEPT !.pc = "ended",
                                   !.tx = connection.base,
                                   !.log = connection.log \o <<"rollback">>],
                "rollback")

\* finally: conn.close(), and the method returns or raises
conn_close ==
    /\ connection.pc = "ended"
    /\ connection' = NoConnection
    /\ last' = [op |-> "returned", method |-> connection.call.method,
                res |-> IF connection.err = "none"
                        THEN (IF connection.ret THEN "True" ELSE "False")
                        ELSE OnError(connection.call.method, connection.err),
                log |-> connection.log \o <<"close">>,
                base |-> connection.base, call |-> connection.call]
    /\ UNCHANGED <<dbvars, botvars, edit_conv, files, lockvars>>

NextConn ==
    \/ conn_connect
    \/ conn_execute
    \/ conn_commit
    \/ conn_rollback
    \/ conn_close

SpecConn == Init /\ [][NextConn]_vars

----------------------------------------------------------------------------
(* serialize_json and deserialize_json applied to drawn dicts and texts *)

KeyA == <<97>>                        \* "a"
KeyQ == <<34, 107>>                   \* a key with a double quote in it

JsonKeys == {KeyA, KeyQ}

\* strings (empty, ASCII, non-ASCII, with characters that are escaped),
\* numbers, booleans and None
JsonValues ==
    {EmptyText, Ana, Perez, <<34, 92, 10>>, <<9, 31>>, None,
     Num(0), Num(-7), Num(42), PyTrue, PyFalse}

JsonDicts ==
    {EmptyDict}
    \cup {<< <<k, v>> >> : k \in JsonKeys, v \in JsonValues}
    \cup {<< <<KeyA, v>>, <<KeyQ, w>> >> : v \in JsonValues, w \in JsonValues}
    \cup {<< <<KeyQ, v>>, <<KeyA, w>> >> : v \in JsonValues, w \in JsonValues}

\* texts found in a datos_* column: absent, empty, blank, truncated, broken,
\* a mapping, and JSON values that are no mapping
StoredTexts ==
    {None, EmptyText, Space,
     <<123, 34, 97, 34, 58, 32, 34, 65, 110>>,                 \* {"a": "An
     <<123, 34, 97, 34, 32, 34, 120, 34, 125>>,                \* {"a" "x"}
     <<123, 39, 97, 39, 58, 32, 49, 125>>,                     \* {'a': 1}
     <<123, 34, 97, 34, 58, 32, 53, 125, 32, 120>>,            \* {"a": 5} x
     <<120, 120>>,                                             \* xx
     <<123, 34, 97, 34, 58, 32, 53, 125>>,                     \* {"a": 5}
     <<123, 34, 97, 34, 58, 32, 91, 49, 93, 125>>,             \* {"a": [1]}
     <<53>>,                                                   \* 5
     <<91, 49, 93>>,                                           \* [1]
     <<110, 117, 108, 108>>,                                   \* null
     <<34, 65, 110, 97, 34>>,                                  \* "Ana"
     <<116, 114, 117, 101>>}                                   \* true

CallSerializeJson ==
    \E d \in JsonDicts :
        /\ last' = [op |-> "serialize_json", data |-> d, text |-> serialize_json(d)]
        /\ UNCHANGED <<dbvars, botvars, othervars>>

\* the text serialize_json made is read back
CallDeserializeSerialized ==
    /\ last.op = "serialize_json"
    /\ last' = [op |-> "deserialize_json", data |-> last.text, roundtrip |-> TRUE,
                original |-> last.data, result |-> deserialize_json(last.text)]
    /\ UNCHANGED <<dbvars, botvars, othervars>>

\* the text of a column is read
CallDeserializeStored ==
    \E t \in StoredTexts :
        /\ last' = [op |-> "deserialize_json", data |-> t, roundtrip |-> FALSE,
                    original |-> EmptyDict, result |-> deserialize_json(t)]
        /\ UNCHANGED <<dbvars, botvars, othervars>>

NextJson ==
    \/ CallSerializeJson
    \/ CallDeserializeSerialized
    \/ CallDeserializeStored

SpecJson == Init /\ [][NextJson]_vars

----------------------------------------------------------------------------
(* bot.py: helpers *)

U == 1001                                  \* update.effective_user.id

CCT_DYN == <<49, 52, 69>>                  \* "14E", a key with extra fields
Telefono == <<116, 101, 108>>              \* "tel"
Sangre == <<115, 97, 110>>                 \* "san"
OptPos == <<79, 43>>                       \* "O+"
Cinco == <<53, 53>>                        \* "55"

Maternal == <<109, 97, 116, 101, 114, 110, 97, 108>>
Preescolar == <<112, 114, 101, 101, 115, 99, 111, 108, 97, 114>>
Primaria == <<112, 114, 105, 109, 97, 114, 105, 97>>
Secundaria == <<115, 101, 99, 117, 110, 100, 97, 114, 105, 97>>
Bachillerato == <<98, 97, 99, 104, 105, 108, 108, 101, 114, 97, 116, 111>>
Universidad == <<117, 110, 105, 118, 101, 114, 115, 105, 100, 97, 100>>

\* the keys of cct.json, as validate_cct collects them
ClavesValidas == {CCT_OK, CCT_DYN}

\* a validation that lets every key through
validate_cct_Any(cct) == TRUE

\* what open() and json.load make of a configuration file: it is there and
\* holds its JSON ("ok"), it is not there ("missing"), it holds no JSON
\* ("malformed"), or it cannot be read: no permission, a directory, bytes
\* that are no UTF-8 ("unreadable")
FileStates == {"ok", "missing", "malformed", "unreadable"}

\* the errors the loaders catch: FileNotFoundError and json.JSONDecodeError
LoaderCaught == {"missing", "malformed"}

\* load_cct_data, of which validate_cct reads the keys
load_cct_data(file) ==
    IF file = "ok" THEN [raised |-> FALSE, claves |-> ClavesValidas]
    ELSE IF file \in LoaderCaught THEN [raised |-> FALSE, claves |-> {}]
    ELSE [raised |-> TRUE, claves |-> {}]

validate_cct(cct) == Upper(cct) \in load_cct_data(files.cct).claves

\* datos_estudiante.json: one institute with one extra question per entity
DatosConfig ==
    CCT_DYN :> [campos_estudiante |->
                    <<[campo |-> Sangre, tipo |-> "opcion_multiple",
                       opciones |-> <<OptPos>>]>>,
                campos_autorizado |->
                    <<[campo |-> Telefono, tipo |-> "texto"]>>]

\* load_datos_estudiante
load_datos_estudiante(file) ==
    IF file = "ok" THEN [raised |-> FALSE, config |-> DatosConfig]
    ELSE IF file \in LoaderCaught THEN [raised |-> FALSE, config |-> <<>>]
    ELSE [raised |-> TRUE, config |-> <<>>]

\* ['1', ..., 'n']
Grados(n) == [i \in 1..n |-> <<48 + i>>]

grados_map ==
    (Maternal :> Grados(3)) @@ (Preescolar :> Grados(3)) @@
    (Primaria :> Grados(6)) @@ (Secundaria :> Grados(3)) @@
    (Bachillerato :> Grados(3)) @@ (Universidad :> Grados(8))

\* a lookup of the level as it was given, without lower()
get_grados_por_nivel_SinLower(nivel) ==
    IF nivel \in DOMAIN grados_map
    THEN grados_map[nivel]
    ELSE Grados(6)

get_grados_por_nivel(nivel) ==
    IF Lower(nivel) \in DOMAIN grados_map
    THEN grados_map[Lower(nivel)]
    ELSE Grados(6)

\* context.user_data: a dict
Has(ud, k) == k \in DOMAIN ud

Get(ud, k, dflt) == IF k \in DOMAIN ud THEN ud[k] ELSE dflt

Put(ud, k, v) == [x \in DOMAIN ud \cup {k} |-> IF x = k THEN v ELSE ud[x]]

----------------------------------------------------------------------------
(* bot.py: the registration conversation *)

\* the keys /start and continue_register look for
RegistrationKeys ==
    {"clave_instituto", "apellidos_estudiante", "nombre_estudiante",
     "apellidos_autorizado", "nombre_autorizado"}

\* the states of register_conv_handler that take a text message
TextStates ==
    {"CLAVE_INSTITUTO", "NOMBRE_ESTUDIANTE", "APELLIDOS_ESTUDIANTE",
     "DATOS_DINAMICOS_ESTUDIANTE", "NOMBRE_AUTORIZADO", "APELLIDOS_AUTORIZADO",
     "DATOS_DINAMICOS_AUTORIZADO"}

\* the keyboards sent with a message, by callback_data
MenuButtons == {"new_student_start", "delete_confirm"}
ResumeButtons == {"continue_register", "restart_register"}
RegisterButtons == {"register_start"}
AddedButtons == {"new_student_start"}

\* a clear() that forgets nothing
clear_Keep(ud) == ud

\* context.user_data.clear()
clear(ud) == EmptySession

\* what a handler leaves behind: the session, the tables, the state the
\* conversation moves to ("RAISED": the handler raised, the state stays) and
\* how the registration ended, if it did
Result(fin, ud, sts, us, sq, state) ==
    [fin |-> fin, user_data |-> ud, students |-> sts, users |-> us,
     seq |-> sq, conv |-> state]

\* a completar_registro that hands db.add_student no guardian names
guardar_registro_SinAutorizado(ud, sts, us, sq, clock) ==
    add_student(sts, us, sq, clock,
        [telegram_id |-> U,
         clave_instituto |-> ud["clave_instituto"],
         nombre_estudiante |-> ud["nombre_estudiante"],
         apellidos_estudiante |-> ud["apellidos_estudiante"],
         grado |-> Get(ud, "grado", None),
         grupo |-> Get(ud, "grupo", None),
         nivel_escolar |-> Get(ud, "nivel_escolar", None),
         datos_estudiante |-> Get(ud, "datos_estudiante_extra", EmptyDict),
         apellidos_autorizado |-> None,
         nombre_autorizado |-> None,
         datos_autorizado |-> Get(ud, "datos_autorizado_extra", EmptyDict)])

\* the db.add_student call of completar_registro
guardar_registro(ud, sts, us, sq, clock) ==
    add_student(sts, us, sq, clock,
        [telegram_id |-> U,
         clave_instituto |-> ud["clave_instituto"],
         nombre_estudiante |-> ud["nombre_estudiante"],
         apellidos_estudiante |-> ud["apellidos_estudiante"],
         grado |-> Get(ud, "grado", None),
         grupo |-> Get(ud, "grupo", None),
         nivel_escolar |-> Get(ud, "nivel_escolar", None),
         datos_estudiante |-> Get(ud, "datos_estudiante_extra", EmptyDict),
         apellidos_autorizado |-> ud["apellidos_autorizado"],
         nombre_autorizado |-> ud["nombre_autorizado"],
         datos_autorizado |-> Get(ud, "datos_autorizado_extra", EmptyDict)])

\* a completar_registro that keeps the session when nothing was saved
completar_registro_KeepOnFailure(ud, sts, us, sq, clock) ==
    IF ~(RegistrationKeys \subseteq DOMAIN ud)
    THEN Result("raised", ud, sts, us, sq, "RAISED")
    ELSE LET r == guardar_registro(ud, sts, us, sq, clock)
         IN  Result(IF r.ret THEN "saved" ELSE "not_saved",
                    IF r.ret THEN clear(ud) ELSE ud,
                    r.students, r.users, r.seq, "END")

completar_registro(ud, sts, us, sq, clock) ==
    IF ~(RegistrationKeys \subseteq DOMAIN ud)
    THEN \* KeyError on context.user_data[...]
         Result("raised", ud, sts, us, sq, "RAISED")
    ELSE LET r == guardar_registro(ud, sts, us, sq, clock)
         IN  Result(IF r.ret THEN "saved" ELSE "not_saved", clear(ud),
                    r.students, r.users, r.seq, "END")

\* the state continue_register returns when the session has one of the keys
ContinueTarget(ud) ==
    IF ~Has(ud, "clave_instituto") THEN "CLAVE_INSTITUTO"
    ELSE IF ~Has(ud, "apellidos_estudiante") THEN "APELLIDOS_ESTUDIANTE"
    ELSE IF ~Has(ud, "nombre_estudiante") THEN "NOMBRE_ESTUDIANTE"
    ELSE IF ~Has(ud, "apellidos_autorizado") THEN "APELLIDOS_AUTORIZADO"
    ELSE "NOMBRE_AUTORIZADO"

\* a lookup that finds no extra question for any institute
HasCampos_Never(cct, entidad) == FALSE

\* the extra questions of an institute for one entity, [] when it has none
HasCampos(cct, entidad) ==
    LET datos_config == load_datos_estudiante(files.datos).config
    IN  cct \in DOMAIN datos_config /\ entidad \in DOMAIN datos_config[cct]

\* mostrar_pregunta_estudiante. sin_mensaje: it was handed an Update that
\* carries a callback query, whose .message is None.
mostrar_pregunta_estudiante(ud, sin_mensaje) ==
    LET campos == Get(ud, "campos_estudiante_pendientes", <<>>)
        idx == Get(ud, "campo_estudiante_actual", 0)
    IN  IF sin_mensaje THEN "RAISED"
        ELSE IF idx >= Len(campos) THEN "NOMBRE_AUTORIZADO"
        ELSE "DATOS_DINAMICOS_ESTUDIANTE"

\* the option buttons of the questions asked so far
OptionButtons(ud) ==
    LET campos == Get(ud, "campos_estudiante_pendientes", <<>>)
        idx == Get(ud, "campo_estudiante_actual", 0)
    IN  UNION {{campos[i].opciones[j] : j \in 1..Len(campos[i].opciones)} :
                  i \in {k \in 1..Len(campos) :
                            k <= idx + 1 /\ campos[k].tipo = "opcion_multiple"}}

mostrar_pregunta_autorizado(ud, sts, us, sq, clock) ==
    LET campos == Get(ud, "campos_autorizado_pendientes", <<>>)
        idx == Get(ud, "campo_autorizado_actual", 0)
    IN  IF idx >= Len(campos)
        THEN completar_registro(ud, sts, us, sq, clock)
        ELSE Result("none", ud, sts, us, sq, "DATOS_DINAMICOS_AUTORIZADO")

\* what the user sends
ClaveInputs == {CCT_OK, Space \o CCT_LOWER, CCT_BAD, CCT_DYN}
NombreInputs == {Juan, Space \o Ana}
ApellidosInputs == {Perez}
NivelButtons == {Secundaria}
GrupoButtons == {<<65>>}
DatoInputs == {Cinco}
AutorizadoNombres == {Ana}
AutorizadoApellidos == {Lopez}

\* the update just handled: the handler, what came of it, what was sent and
\* how the registration ended if the handler finished one
Handled(op, res, arg, fin) == [op |-> op, res |-> res, arg |-> arg, fin |-> fin]

\* a handler that touches the session and at most the state of the
\* registration conversation
Session(ud, state, op, res, arg) ==
    /\ user_data' = ud
    /\ conv' = state
    /\ last' = Handled(op, res, arg, "none")
    /\ UNCHANGED <<students, users, seq, now, new_conv, shown, teclado, othervars>>

\* a handler that may have finished a registration
Outcome(r, op, arg, clock) ==
    /\ r.seq <= MaxReg
    /\ user_data' = r.user_data
    /\ students' = r.students
    /\ users' = r.users
    /\ seq' = r.seq
    /\ conv' = IF r.conv = "RAISED" THEN conv ELSE r.conv
    /\ shown' = IF r.fin = "saved" THEN shown \cup MenuButtons ELSE shown
    /\ last' = Handled(op, IF r.conv = "RAISED" THEN "raised" ELSE "ok", arg, r.fin)
    /\ now' = IF r.fin \in {"saved", "not_saved"} THEN clock ELSE now
    /\ UNCHANGED <<new_conv, teclado, othervars>>

\* /start
start ==
    LET ud == IF Get(user_data, "registration_in_progress", FALSE)
              THEN clear(user_data) ELSE user_data
        has_actual_registration_data == \E k \in RegistrationKeys : Has(ud, k)
        is_in_registration_process ==
            Get(ud, "registration_in_progress", FALSE) \/ has_actual_registration_data
        offered == IF student_exists(students, U) THEN "menu"
                   ELSE IF is_in_registration_process THEN "resume"
                   ELSE "register"
    IN  /\ user_data' = ud
        /\ shown' = shown \cup (CASE offered = "menu" -> MenuButtons
                                  [] offered = "resume" -> ResumeButtons
                                  [] offered = "register" -> RegisterButtons)
        /\ last' = Handled("start", offered, None, "none")
        /\ UNCHANGED <<students, users, seq, now, conv, new_conv, teclado, othervars>>

\* /cancel: the CommandHandler added before the conversations takes it, so
\* the value it returns ends no conversation
cancel ==
    /\ user_data' = clear(user_data)
    /\ last' = Handled("cancel", "ok", None, "none")
    /\ UNCHANGED <<students, users, seq, now, conv, new_conv, shown, teclado, othervars>>

\* entry points of register_conv_handler: taken when it is in no state
register_start ==
    /\ "register_start" \in shown
    /\ conv = "END"
    /\ \* an expired query is logged and the handler goes on
       Session(Put(Put(Put(clear(user_data),
                   "registration_in_progress", TRUE),
                   "datos_estudiante_extra", EmptyDict),
                   "datos_autorizado_extra", EmptyDict),
               "CLAVE_INSTITUTO", "register_start", "ok", None)

\* continue_register: the state it returns, whatever chat the button is in
continue_register_state(ud) ==
    IF ~(\E k \in RegistrationKeys : Has(ud, k))
    THEN "CLAVE_INSTITUTO"
    ELSE ContinueTarget(ud)

continue_register ==
    /\ "continue_register" \in shown
    /\ conv = "END"
    /\ \E expired \in BOOLEAN :
        IF expired
        THEN Session(user_data, "END", "continue_register", "expired", "END")
        ELSE Session(user_data, continue_register_state(user_data),
                     "continue_register", "ok",
                     continue_register_state(user_data))

restart_register ==
    /\ "restart_register" \in shown
    /\ conv = "END"
    /\ \E expired \in BOOLEAN :
        IF expired
        THEN Session(user_data, "END", "restart_register", "expired", None)
        ELSE Session(Put(clear(user_data), "registration_in_progress", TRUE),
                     "CLAVE_INSTITUTO", "restart_register", "ok", None)

\* a clave_instituto that writes the key to the session before validating it
clave_instituto_user_data_Antes(ud, cct) ==
    Put(Put(ud, "clave_instituto", cct), "registration_in_progress", TRUE)

\* the session clave_instituto leaves: written only after validate_cct
clave_instituto_user_data(ud, cct) ==
    IF ~validate_cct(cct) THEN ud
    ELSE Put(Put(ud, "clave_instituto", cct), "registration_in_progress", TRUE)

clave_instituto ==
    /\ conv = "CLAVE_INSTITUTO"
    /\ \E text \in ClaveInputs :
        LET cct == Upper(Strip(text))
        IN  IF load_cct_data(files.cct).raised
            THEN Session(user_data, conv, "clave_instituto", "unreadable", text)
            ELSE IF ~validate_cct(cct)
            THEN Session(clave_instituto_user_data(user_data, cct),
                         "CLAVE_INSTITUTO", "clave_instituto", "rejected", text)
            ELSE Session(clave_instituto_user_data(user_data, cct),
                         "NOMBRE_ESTUDIANTE", "clave_instituto", "ok", text)

nombre_estudiante ==
    /\ conv = "NOMBRE_ESTUDIANTE"
    /\ \E text \in NombreInputs :
        Session(Put(Put(user_data, "nombre_estudiante", Strip(text)),
                    "registration_in_progress", TRUE),
                "APELLIDOS_ESTUDIANTE", "nombre_estudiante", "ok", text)

apellidos_estudiante ==
    /\ conv = "APELLIDOS_ESTUDIANTE"
    /\ \E text \in ApellidosInputs :
        Session(Put(Put(user_data, "apellidos_estudiante", Strip(text)),
                    "registration_in_progress", TRUE),
                "NIVEL_ESCOLAR", "apellidos_estudiante", "ok", text)

\* the keyboard callbacks answer the query outside any try: an expired
\* query raises before anything is written
nivel_escolar_callback ==
    /\ conv = "NIVEL_ESCOLAR"
    /\ \E nivel \in NivelButtons, expired \in BOOLEAN :
        /\ user_data' = IF expired THEN user_data
                        ELSE Put(user_data, "nivel_escolar", nivel)
        /\ conv' = IF expired THEN conv ELSE "GRADO"
        /\ teclado' = IF expired THEN teclado ELSE get_grados_por_nivel(nivel)
        /\ last' = Handled("nivel_escolar_callback",
                           IF expired THEN "raised" ELSE "ok", nivel, "none")
        /\ UNCHANGED <<students, users, seq, now, new_conv, shown, othervars>>

\* the user presses the last grade of the keyboard
grado_callback ==
    /\ conv = "GRADO"
    /\ teclado # <<>>
    /\ \E expired \in BOOLEAN :
        LET grado == teclado[Len(teclado)]
        IN  IF expired
            THEN Session(user_data, conv, "grado_callback", "raised", grado)
            ELSE Session(Put(user_data, "grado", grado), "GRUPO",
                         "grado_callback", "ok", grado)

grupo_callback ==
    /\ conv = "GRUPO"
    /\ \E grupo \in GrupoButtons, expired \in BOOLEAN :
        LET ud == Put(user_data, "grupo", grupo)
            cct == Get(ud, "clave_instituto", None)
            preguntas == Put(Put(ud, "campos_estudiante_pendientes",
                                 DatosConfig[cct].campos_estudiante),
                             "campo_estudiante_actual", 0)
        IN  IF expired
            THEN Session(user_data, conv, "grupo_callback", "raised", grupo)
            ELSE IF load_datos_estudiante(files.datos).raised
            THEN Session(ud, conv, "grupo_callback", "unreadable", grupo)
            ELSE IF HasCampos(cct, "campos_estudiante")
            THEN Session(preguntas, mostrar_pregunta_estudiante(preguntas, FALSE),
                         "grupo_callback", "ok", grupo)
            ELSE Session(ud, "NOMBRE_AUTORIZADO", "grupo_callback", "ok", grupo)

\* datos_dinamicos_estudiante_handler on a text (boton FALSE) or on the
\* press of an option button (boton TRUE)
datos_dinamicos_estudiante(valor, boton) ==
    LET campos == Get(user_data, "campos_estudiante_pendientes", <<>>)
        idx == Get(user_data, "campo_estudiante_actual", 0)
        op == "datos_dinamicos_estudiante_handler"
        answered == Put(Put(user_data, "datos_estudiante_extra",
                            DictPut(user_data["datos_estudiante_extra"],
                                    campos[idx + 1].campo, valor)),
                        "campo_estudiante_actual", idx + 1)
        next(ud) == mostrar_pregunta_estudiante(ud, boton)
    IN  IF idx >= Len(campos)
        THEN IF next(user_data) = "RAISED"
             THEN Session(user_data, conv, op, "raised", valor)
             ELSE Session(user_data, next(user_data), op, "ok", valor)
        ELSE IF ~Has(user_data, "datos_estudiante_extra")
        THEN \* KeyError
             Session(user_data, conv, op, "raised", valor)
        ELSE IF next(answered) = "RAISED"
        THEN Session(answered, conv, op, "raised", valor)
        ELSE Session(answered, next(answered), op, "ok", valor)

datos_dinamicos_estudiante_handler ==
    /\ conv = "DATOS_DINAMICOS_ESTUDIANTE"
    /\ \/ \E text \in DatoInputs : datos_dinamicos_estudiante(Strip(text), FALSE)
       \/ \E opt \in OptionButtons(user_data) :
              \/ datos_dinamicos_estudiante(opt, TRUE)
              \/ \* the query has expired
                 Session(user_data, conv, "datos_dinamicos_estudiante_handler",
                         "expired", opt)

nombre_autorizado_nuevo ==
    /\ conv = "NOMBRE_AUTORIZADO"
    /\ \E text \in AutorizadoNombres :
        Session(Put(user_data, "nombre_autorizado", Strip(text)),
                "APELLIDOS_AUTORIZADO", "nombre_autorizado_nuevo", "ok", text)

apellidos_autorizado_nuevo ==
    /\ conv = "APELLIDOS_AUTORIZADO"
    /\ \E text \in AutorizadoApellidos, clock \in Clocks(now, students) :
        LET ud == Put(user_data, "apellidos_autorizado", Strip(text))
            cct == Get(ud, "clave_instituto", None)
            preguntas == Put(Put(ud, "campos_autorizado_pendientes",
                                 DatosConfig[cct].campos_autorizado),
                             "campo_autorizado_actual", 0)
        IN  IF load_datos_estudiante(files.datos).raised
            THEN Outcome([user_data |-> ud, students |-> students,
                          users |-> users, seq |-> seq, conv |-> "RAISED",
                          fin |-> "unreadable"],
                         "apellidos_autorizado_nuevo", text, clock)
            ELSE IF HasCampos(cct, "campos_autorizado")
            THEN Outcome(mostrar_pregunta_autorizado(preguntas, students, users,
                                                     seq, clock),
                         "apellidos_autorizado_nuevo", text, clock)
            ELSE Outcome(completar_registro(ud, students, users, seq, clock),
                         "apellidos_autorizado_nuevo", text, clock)

datos_dinamicos_autorizado_handler ==
    /\ conv = "DATOS_DINAMICOS_AUTORIZADO"
    /\ \E text \in DatoInputs, clock \in Clocks(now, students) :
        LET campos == Get(user_data, "campos_autorizado_pendientes", <<>>)
            idx == Get(user_data, "campo_autorizado_actual", 0)
            op == "datos_dinamicos_autorizado_handler"
            answered == Put(Put(user_data, "datos_autorizado_extra",
                                DictPut(user_data["datos_autorizado_extra"],
                                        campos[idx + 1].campo, Strip(text))),
                            "campo_autorizado_actual", idx + 1)
        IN  IF idx >= Len(campos)
            THEN Outcome(completar_registro(user_data, students, users, seq, clock),
                         op, text, clock)
            ELSE IF ~Has(user_data, "datos_autorizado_extra")
            THEN \* KeyError
                 Outcome(Result("none", user_data, students, users, seq, "RAISED"),
                         op, text, clock)
            ELSE Outcome(mostrar_pregunta_autorizado(answered, students, users,
                                                     seq, clock),
                         op, text, clock)

----------------------------------------------------------------------------
(* bot.py: one more student, deletion, the menu *)

\* a key with a leading space that cct.json does not list
NewClaveInputs == {Space \o CCT_BAD}
NewNombreInputs == {Ana}

\* a handler of new_student_conv_handler that only writes the session
NewSession(ud, state, op, res, arg) ==
    /\ user_data' = ud
    /\ new_conv' = state
    /\ last' = Handled(op, res, arg, "none")
    /\ UNCHANGED <<students, users, seq, now, conv, shown, teclado, othervars>>

new_student_start ==
    /\ "new_student_start" \in shown
    /\ new_conv = "END"
    /\ \E expired \in BOOLEAN :
        IF expired
        THEN NewSession(user_data, "END", "new_student_start", "expired", None)
        ELSE NewSession(Put(clear(user_data), "new_student_registration", TRUE),
                        "NEW_CLAVE_INSTITUTO", "new_student_start", "ok", None)

\* a text reaches new_student_conv_handler when register_conv_handler, added
\* before it, is in no state that takes texts
new_clave_instituto ==
    /\ conv \notin TextStates
    /\ new_conv = "NEW_CLAVE_INSTITUTO"
    /\ \E text \in NewClaveInputs :
        NewSession(Put(Put(user_data, "clave_instituto", text),
                       "new_student_registration", TRUE),
                   "NEW_APELLIDOS_ESTUDIANTE", "new_clave_instituto", "ok", text)

new_apellidos_estudiante ==
    /\ conv \notin TextStates
    /\ new_conv = "NEW_APELLIDOS_ESTUDIANTE"
    /\ \E text \in ApellidosInputs :
        NewSession(Put(Put(user_data, "apellidos_estudiante", text),
                       "new_student_registration", TRUE),
                   "NEW_NOMBRE_ESTUDIANTE", "new_apellidos_estudiante", "ok", text)

\* a call that hands the names of the student over as those of the guardian
nuevo_estudiante_ConAutorizado(ud) ==
    [telegram_id |-> U,
     clave_instituto |-> ud["clave_instituto"],
     nombre_estudiante |-> ud["nombre_estudiante"],
     apellidos_estudiante |-> ud["apellidos_estudiante"],
     grado |-> None, grupo |-> None, nivel_escolar |-> None,
     datos_estudiante |-> EmptyDict,
     apellidos_autorizado |-> ud["apellidos_estudiante"],
     nombre_autorizado |-> ud["nombre_estudiante"],
     datos_autorizado |-> EmptyDict]

\* the keyword arguments of the db.add_student call of new_nombre_estudiante
nuevo_estudiante(ud) ==
    [telegram_id |-> U,
     clave_instituto |-> ud["clave_instituto"],
     nombre_estudiante |-> ud["nombre_estudiante"],
     apellidos_estudiante |-> ud["apellidos_estudiante"],
     grado |-> None, grupo |-> None, nivel_escolar |-> None,
     datos_estudiante |-> EmptyDict,
     apellidos_autorizado |-> None, nombre_autorizado |-> None,
     datos_autorizado |-> EmptyDict]

new_nombre_estudiante ==
    /\ conv \notin TextStates
    /\ new_conv = "NEW_NOMBRE_ESTUDIANTE"
    /\ \E text \in NewNombreInputs, clock \in Clocks(now, students) :
        LET ud == Put(user_data, "nombre_estudiante", text)
            op == "new_nombre_estudiante"
            r == add_student(students, users, seq, clock, nuevo_estudiante(ud))
        IN  IF get_user(users, U) = NoRow
            THEN /\ user_data' = clear(ud)
                 /\ new_conv' = "END"
                 /\ last' = Handled(op, "ok", text, "no_user")
                 /\ UNCHANGED <<students, users, seq, now, conv, shown, teclado, othervars>>
            ELSE IF ~({"clave_instituto", "apellidos_estudiante"} \subseteq DOMAIN ud)
            THEN \* KeyError
                 /\ user_data' = ud
                 /\ last' = Handled(op, "raised", text, "raised")
                 /\ UNCHANGED <<students, users, seq, now, conv, new_conv,
                                shown, teclado, othervars>>
            ELSE /\ r.seq <= MaxReg
                 /\ user_data' = clear(ud)
                 /\ students' = r.students
                 /\ users' = r.users
                 /\ seq' = r.seq
                 /\ new_conv' = "END"
                 /\ shown' = IF r.ret THEN shown \cup AddedButtons ELSE shown
                 /\ last' = Handled(op, "ok", text,
                                    IF r.ret THEN "saved" ELSE "not_saved")
                 /\ now' = clock
                 /\ UNCHANGED <<conv, teclado, othervars>>

\* delete_confirmed, the callback outside the conversations that writes.
\* delete_confirm and back_to_menu only show keyboards: the "yes, delete"
\* button is one press away from every menu, and back_to_menu shows nothing
\* that the menu or the deletion before it has not shown.
delete_confirmed ==
    /\ "delete_confirm" \in shown
    /\ LET r == delete_student(students, U, 0)
       IN  /\ students' = r.students
           /\ shown' = IF r.ret THEN shown \cup RegisterButtons ELSE shown
           /\ last' = Handled("delete_confirmed",
                              IF r.ret THEN "deleted" ELSE "nothing", None, "none")
    /\ UNCHANGED <<users, seq, now, user_data, conv, new_conv, teclado, othervars>>

Next ==
    \/ start
    \/ cancel
    \/ register_start
    \/ continue_register
    \/ restart_register
    \/ clave_instituto
    \/ nombre_estudiante
    \/ apellidos_estudiante
    \/ nivel_escolar_callback
    \/ grado_callback
    \/ grupo_callback
    \/ datos_dinamicos_estudiante_handler
    \/ nombre_autorizado_nuevo
    \/ apellidos_autorizado_nuevo
    \/ datos_dinamicos_autorizado_handler
    \/ new_student_start
    \/ new_clave_instituto
    \/ new_apellidos_estudiante
    \/ new_nombre_estudiante
    \/ delete_confirmed

Spec == Init /\ [][Next]_vars

\* the "add another student" flow over a storage that other callers write
\* too: a student stored without guardian names has no row in users
NextNew ==
    \/ CallAddStudent
    \/ start
    \/ cancel
    \/ new_student_start
    \/ new_clave_instituto
    \/ new_apellidos_estudiante
    \/ new_nombre_estudiante

SpecNew == Init /\ [][NextNew]_vars

(* The registration while the configuration files come and go *)

\* cct.json or datos_estudiante.json is removed, replaced or put back
\* before the bot handles its first update; the loaders open the files at
\* every call
ConfigFileChanges ==
    \E f \in {"cct", "datos"}, st \in FileStates :
        /\ last.op \in {"none", "open"}
        /\ files[f] # st
        /\ files' = [files EXCEPT ![f] = st]
        /\ last' = Handled("open", st, f, "none")
        /\ UNCHANGED <<dbvars, botvars, edit_conv, lockvars, connection>>

NextFiles ==
    \/ ConfigFileChanges
    \/ start
    \/ register_start
    \/ clave_instituto
    \/ nombre_estudiante
    \/ apellidos_estudiante
    \/ nivel_escolar_callback
    \/ grado_callback
    \/ grupo_callback
    \/ datos_dinamicos_estudiante_handler
    \/ nombre_autorizado_nuevo
    \/ apellidos_autorizado_nuevo
    \/ datos_dinamicos_autorizado_handler

SpecFiles == Init /\ [][NextFiles]_vars

(* The single-instance lock: processes that start, run and exit *)

\* the step of one process: its position, the inode its file is open on
Step(p, pc, fd, op) ==
    /\ procs' = [procs EXCEPT ![p] = [pc |-> pc, fd |-> fd]]
    /\ last' = [op |-> op, proc |-> p]
    /\ UNCHANGED <<dbvars, botvars, edit_conv, files, connection>>

\* _acquire_instance_lock, f = open(lock_path, "a+"): the file at the path
\* is opened, or a new file is created there
acquire_open(p) ==
    /\ procs[p].pc = "off"
    /\ IF lockfile.path # 0
       THEN /\ lockfile' = lockfile
            /\ Step(p, "opened", lockfile.path, "open")
       ELSE /\ lockfile.made < MaxInode
            /\ lockfile' = [lockfile EXCEPT !.path = lockfile.made + 1,
                                            !.made = lockfile.made + 1]
            /\ Step(p, "opened", lockfile.made + 1, "open")

\* fcntl.flock(f, LOCK_EX | LOCK_NB): the lock of the open file is taken and
\* main goes on to run the bot, or OSError: f.close(), return None, and main
\* returns
acquire_flock(p) ==
    /\ procs[p].pc = "opened"
    /\ IF lockfile.flock[procs[p].fd] = 0
       THEN /\ lockfile' = [lockfile EXCEPT !.flock[procs[p].fd] = p]
            /\ Step(p, "running", procs[p].fd, "flock")
       ELSE /\ lockfile' = lockfile
            /\ Step(p, "off", 0, "refused")

\* _release_instance_lock at exit, fcntl.flock(f, LOCK_UN)
release_unlock(p) ==
    /\ procs[p].pc = "running"
    /\ lockfile' = [lockfile EXCEPT !.flock[procs[p].fd] = 0]
    /\ Step(p, "unlocked", procs[p].fd, "unlock")

\* f.close()
release_close(p) ==
    /\ procs[p].pc = "unlocked"
    /\ lockfile' = lockfile
    /\ Step(p, "closed", 0, "close")

\* os.remove(path): whatever file is at the path is unlinked; an error, as
\* when the file is gone already, is passed over
release_remove(p) ==
    /\ procs[p].pc = "closed"
    /\ lockfile' = [lockfile EXCEPT !.path = 0]
    /\ Step(p, "off", 0, "remove")

NextLock ==
    \/ \E p \in Procs : acquire_open(p)
    \/ \E p \in Procs : acquire_flock(p)
    \/ \E p \in Procs : release_unlock(p)
    \/ \E p \in Procs : release_close(p)
    \/ \E p \in Procs : release_remove(p)

SpecLock == Init /\ [][NextLock]_vars

(* The edit conversation: edit_menu, edit_student_select, edit_field_select,
   edit_value_receive *)

\* texts of bot.py, as code points
\* "edit_student_"
T_edit_student == <<101, 100, 105, 116, 95, 115, 116, 117, 100, 101, 110, 116, 95>>
\* "edit_field_"
T_edit_field == <<101, 100, 105, 116, 95, 102, 105, 101, 108, 100, 95>>
\* "edit_menu"
T_edit_menu == <<101, 100, 105, 116, 95, 109, 101, 110, 117>>
\* "estudiante"
T_estudiante == <<101, 115, 116, 117, 100, 105, 97, 110, 116, 101>>
\* "autorizado"
T_autorizado == <<97, 117, 116, 111, 114, 105, 122, 97, 100, 111>>
\* "clave"
T_clave == <<99, 108, 97, 118, 101>>
\* "nivel"
T_nivel == <<110, 105, 118, 101, 108>>
\* "nombre"
T_nombre == <<110, 111, 109, 98, 114, 101>>
\* "apellidos"
T_apellidos == <<97, 112, 101, 108, 108, 105, 100, 111, 115>>

\* the callback_data of the field buttons of edit_student_select, without the id
EditFieldButtons ==
    <<\* "edit_field_clave_instituto_estudiante_"
      <<101, 100, 105, 116, 95, 102, 105, 101, 108, 100, 95, 99, 108, 97, 118, 101, 95, 105, 110, 115, 116, 105, 116, 117, 116, 111, 95, 101, 115, 116, 117, 100, 105, 97, 110, 116, 101, 95>>,
      \* "edit_field_nombre_estudiante_"
      <<101, 100, 105, 116, 95, 102, 105, 101, 108, 100, 95, 110, 111, 109, 98, 114, 101, 95, 101, 115, 116, 117, 100, 105, 97, 110, 116, 101, 95>>,
      \* "edit_field_apellidos_estudiante_"
      <<101, 100, 105, 116, 95, 102, 105, 101, 108, 100, 95, 97, 112, 101, 108, 108, 105, 100, 111, 115, 95, 101, 115, 116, 117, 100, 105, 97, 110, 116, 101, 95>>,
      \* "edit_field_nivel_escolar_estudiante_"
      <<101, 100, 105, 116, 95, 102, 105, 101, 108, 100, 95, 110, 105, 118, 101, 108, 95, 101, 115, 99, 111, 108, 97, 114, 95, 101, 115, 116, 117, 100, 105, 97, 110, 116, 101, 95>>,
      \* "edit_field_grado_estudiante_"
      <<101, 100, 105, 116, 95, 102, 105, 101, 108, 100, 95, 103, 114, 97, 100, 111, 95, 101, 115, 116, 117, 100, 105, 97, 110, 116, 101, 95>>,
      \* "edit_field_grupo_estudiante_"
      <<101, 100, 105, 116, 95, 102, 105, 101, 108, 100, 95, 103, 114, 117, 112, 111, 95, 101, 115, 116, 117, 100, 105, 97, 110, 116, 101, 95>>,
      \* "edit_field_nombre_autorizado_autorizado_"
      <<101, 100, 105, 116, 95, 102, 105, 101, 108, 100, 95, 110, 111, 109, 98, 114, 101, 95, 97, 117, 116, 111, 114, 105, 122, 97, 100, 111, 95, 97, 117, 116, 111, 114, 105, 122, 97, 100, 111, 95>>,
      \* "edit_field_apellidos_autorizado_autorizado_"
      <<101, 100, 105, 116, 95, 102, 105, 101, 108, 100, 95, 97, 112, 101, 108, 108, 105, 100, 111, 115, 95, 97, 117, 116, 111, 114, 105, 122, 97, 100, 111, 95, 97, 117, 116, 111, 114, 105, 122, 97, 100, 111, 95>>>>

\* the column a text names, as the SQL of update_student and update_user reads it
ColumnNames ==
       (<<99, 108, 97, 118, 101, 95, 105, 110, 115, 116, 105, 116, 117, 116, 111>> :> "clave_instituto")
    @@ (<<110, 111, 109, 98, 114, 101, 95, 101, 115, 116, 117, 100, 105, 97, 110, 116, 101>> :> "nombre_estudiante")
    @@ (<<97, 112, 101, 108, 108, 105, 100, 111, 115, 95, 101, 115, 116, 117, 100, 105, 97, 110, 116, 101>> :> "apellidos_estudiante")
    @@ (<<110, 105, 118, 101, 108, 95, 101, 115, 99, 111, 108, 97, 114>> :> "nivel_escolar")
    @@ (<<103, 114, 97, 100, 111>> :> "grado")
    @@ (<<103, 114, 117, 112, 111>> :> "grupo")
    @@ (<<100, 97, 116, 111, 115, 95, 101, 115, 116, 117, 100, 105, 97, 110, 116, 101>> :> "datos_estudiante")
    @@ (<<110, 111, 109, 98, 114, 101, 95, 97, 117, 116, 111, 114, 105, 122, 97, 100, 111>> :> "nombre_autorizado")
    @@ (<<97, 112, 101, 108, 108, 105, 100, 111, 115, 95, 97, 117, 116, 111, 114, 105, 122, 97, 100, 111>> :> "apellidos_autorizado")
    @@ (<<100, 97, 116, 111, 115, 95, 97, 117, 116, 111, 114, 105, 122, 97, 100, 111>> :> "datos_autorizado")
    @@ (<<116, 101, 108, 101, 103, 114, 97, 109, 95, 105, 100>> :> "telegram_id")
    @@ (<<105, 100>> :> "id")
    @@ (<<99, 114, 101, 97, 116, 101, 100, 95, 97, 116>> :> "created_at")

\* a text that names no column gives the name "bogus", which no table has
Column(t) == IF t \in DOMAIN ColumnNames THEN ColumnNames[t] ELSE "bogus"

\* str.startswith
StartsWith(t, prefix) ==
    Len(t) >= Len(prefix) /\ SubSeq(t, 1, Len(prefix)) = prefix

\* str.split(sep) for a separator of one character
RECURSIVE Split(_, _)
Split(t, sep) ==
    IF \A i \in 1..Len(t) : t[i] # sep THEN <<t>>
    ELSE LET k == CHOOSE i \in 1..Len(t) :
                      t[i] = sep /\ \A j \in 1..(i - 1) : t[j] # sep
         IN  <<SubSeq(t, 1, k - 1)>> \o Split(SubSeq(t, k + 1, Len(t)), sep)

\* the texts of decimal digits, for which int() gives a number; for any
\* other text of the buttons it raises ValueError
IsIntText(t) == t # <<>> /\ \A i \in 1..Len(t) : IsDigit(t[i])

RECURSIVE int(_)
int(t) ==
    IF t = <<>> THEN 0
    ELSE 10 * int(SubSeq(t, 1, Len(t) - 1)) + (t[Len(t)] - 48)

\* parts = query.data.split("_") of edit_field_select
edit_field_parts(data) == Split(data, 95)

\* the keyboard of edit_menu: one button per student of the user
EditMenuKeyboard(sts) ==
    [i \in 1..Len(get_students(sts, U)) |->
        T_edit_student \o IntText(get_students(sts, U)[i].id)]

\* the keyboard of edit_student_select: the eight fields, and the way back
EditKeyboard(student_id) ==
    [i \in 1..Len(EditFieldButtons) |-> EditFieldButtons[i] \o IntText(student_id)]
        \o <<T_edit_menu>>

\* the text sent as new value: a name after a space
EditInputs == {Space \o Luis}

\* a step of the edit flow that writes no table
EditSession(ud, state, keyboard, op, res, arg) ==
    /\ user_data' = ud
    /\ edit_conv' = state
    /\ teclado' = keyboard
    /\ last' = Handled(op, res, arg, "none")
    /\ UNCHANGED <<dbvars, conv, new_conv, shown, files, lockvars, connection>>

\* the button Editar of the main menu, which /start sends to a user who has
\* a student
edit_menu ==
    /\ student_exists(students, U)
    /\ EditSession(user_data, edit_conv, EditMenuKeyboard(students),
                   "edit_menu", "ok", T_edit_menu)

edit_student_select ==
    \E i \in 1..Len(teclado) :
        LET data == teclado[i]
            student_id == int(Split(data, 95)[3])
            student == get_student(students, U, student_id)
        IN  /\ StartsWith(data, T_edit_student)
            /\ IF student = NoRow
               THEN EditSession(user_data, edit_conv, <<>>,
                                "edit_student_select", "not_found", data)
               ELSE EditSession(Put(user_data, "edit_student_id", student_id),
                                edit_conv, EditKeyboard(student_id),
                                "edit_student_select", "ok", data)

\* entry point of edit_conv_handler: a field button is pressed while no
\* conversation is under way
edit_field_select ==
    /\ edit_conv = "END"
    /\ conv = "END"
    /\ new_conv = "END"
    /\ \E i \in 1..Len(teclado) :
        LET data == teclado[i]
            parts == edit_field_parts(data)
        IN  /\ StartsWith(data, T_edit_field)
            /\ IF Len(parts) < 5 \/ ~IsIntText(parts[5])
               THEN \* IndexError, or ValueError of int(parts[4])
                    EditSession(user_data, edit_conv, teclado,
                                "edit_field_select", "raised", data)
               ELSE EditSession(Put(Put(Put(user_data, "edit_field", parts[3]),
                                        "edit_field_type", parts[4]),
                                    "edit_student_id", int(parts[5])),
                                "EDIT_VALUE", <<>>,
                                "edit_field_select", "ok", data)

\* the column edit_value_receive names for a field of the student
field_full_estudiante(field) ==
    IF field = T_clave THEN "clave_instituto"
    ELSE IF field = T_nivel THEN "nivel_escolar"
    ELSE IF field \in {T_nombre, T_apellidos}
    THEN Column(field \o <<95>> \o T_estudiante)
    ELSE Column(field)

edit_value_receive ==
    /\ edit_conv = "EDIT_VALUE"
    /\ conv = "END"
    /\ new_conv = "END"
    /\ \E new_value \in EditInputs :
        LET field == Get(user_data, "edit_field", None)
            field_type == Get(user_data, "edit_field_type", None)
            student_id == Get(user_data, "edit_student_id", 0)
            us == IF Truthy(field) /\ Truthy(field_type) /\ field_type = T_autorizado
                  THEN update_user(users, U,
                                   Column(field \o <<95>> \o T_autorizado), new_value)
                  ELSE [ret |-> FALSE, users |-> users]
            st == IF Truthy(field) /\ Truthy(field_type)
                     /\ field_type = T_estudiante /\ student_id # 0
                  THEN update_student(students, U, field_full_estudiante(field),
                                      new_value, student_id)
                  ELSE [ret |-> FALSE, students |-> students]
            updated == us.ret \/ st.ret
            \* student['nombre_estudiante'] of the message, on None
            raised == updated /\ get_student(st.students, U, student_id) = NoRow
        IN  /\ students' = st.students
            /\ users' = us.users
            /\ user_data' = IF raised THEN user_data ELSE clear(user_data)
            /\ edit_conv' = IF raised THEN edit_conv ELSE "END"
            /\ teclado' = IF updated /\ ~raised
                          THEN <<T_edit_student \o IntText(student_id), T_edit_menu>>
                          ELSE teclado
            /\ last' = [op |-> "edit_value_receive",
                        res |-> IF raised THEN "raised"
                                ELSE IF updated THEN "ok" ELSE "error",
                        arg |-> new_value, fin |-> "none",
                        field |-> field, field_type |-> field_type,
                        student_id |-> student_id]
            /\ UNCHANGED <<seq, now, conv, new_conv, shown, files, lockvars,
                           connection>>

\* two students of the user and their guardian are stored, as two
\* add_student calls leave them
StoredRegistration ==
    LET a(nombre) == [telegram_id |-> U, clave_instituto |-> CCT_OK,
                      nombre_estudiante |-> nombre, apellidos_estudiante |-> Perez,
                      grado |-> <<49>>, grupo |-> <<65>>,
                      nivel_escolar |-> Primaria,
                      datos_estudiante |-> EmptyDict,
                      apellidos_autorizado |-> Lopez, nombre_autorizado |-> Ana,
                      datos_autorizado |-> EmptyDict]
        r1 == add_student({}, {}, 0, 0, a(Juan))
    IN  add_student(r1.students, r1.users, r1.seq, 0, a(Ana))

InitEdit ==
    /\ students = StoredRegistration.students
    /\ users = StoredRegistration.users
    /\ seq = StoredRegistration.seq
    /\ now = 0
    /\ user_data = EmptySession
    /\ conv = "END"
    /\ new_conv = "END"
    /\ shown = {}
    /\ teclado = <<>>
    /\ edit_conv = "END"
    /\ files = FilesInPlace
    /\ lockfile = NoLockFile
    /\ procs = NotStarted
    /\ connection = NoConnection
    /\ last = NoCall

NextEdit ==
    \/ edit_menu
    \/ edit_student_select
    \/ edit_field_select
    \/ edit_value_receive

SpecEdit == InitEdit /\ [][NextEdit]_vars

(* get_grados_por_nivel applied to drawn level texts, and the keyboards that
   follow it *)

\* the first letter in upper case, as the level buttons give it
Capital(t) == IF t = <<>> THEN t ELSE <<UpperChar(t[1])>> \o Tail(t)

\* the last letter in upper case
Final(t) == IF t = <<>> THEN t ELSE SubSeq(t, 1, Len(t) - 1) \o <<UpperChar(t[Len(t)])>>

Posgrado == <<112, 111, 115, 103, 114, 97, 100, 111>>   \* "posgrado"

\* the six levels of the table and texts that are no level of it: a level
\* the table does not have, a level with a trailing space, the empty text
NivelBases ==
    {Maternal, Preescolar, Primaria, Secundaria, Bachillerato, Universidad,
     Posgrado, Universidad \o Space, EmptyText}

NivelTexts == UNION {{b, Upper(b), Capital(b), Final(b)} : b \in NivelBases}

\* grupos of grado_callback
grupos == <<<<65>>, <<66>>, <<67>>, <<68>>, <<69>>, <<70>>>>

CallGetGradosPorNivel ==
    \E nivel \in NivelTexts :
        /\ teclado' = get_grados_por_nivel(nivel)
        /\ last' = [op |-> "get_grados_por_nivel", nivel |-> nivel,
                    ret |-> get_grados_por_nivel(nivel)]
        /\ UNCHANGED <<dbvars, user_data, conv, new_conv, shown, othervars>>

\* a grade button of the keyboard made of the grades is pressed: the group
\* keyboard replaces it
PressGrado ==
    /\ last.op = "get_grados_por_nivel"
    /\ \E i \in 1..Len(teclado) :
        /\ teclado' = grupos
        /\ last' = [op |-> "grado", nivel |-> last.nivel, grado |-> teclado[i]]
        /\ UNCHANGED <<dbvars, user_data, conv, new_conv, shown, othervars>>

\* a group button of the group keyboard is pressed
PressGrupo ==
    /\ last.op = "grado"
    /\ \E i \in 1..Len(teclado) :
        /\ teclado' = <<>>
        /\ last' = [op |-> "grupo", nivel |-> last.nivel, grado |-> last.grado,
                    grupo |-> teclado[i]]
        /\ UNCHANGED <<dbvars, user_data, conv, new_conv, shown, othervars>>

NextGrados ==
    \/ CallGetGradosPorNivel
    \/ PressGrado
    \/ PressGrupo

SpecGrados == Init /\ [][NextGrados]_vars

----------------------------------------------------------------------------
(* The same user in a second chat. context.user_data belongs to the user,   *)
(* the state of a conversation to the pair (chat, user): in a group the     *)
(* user shares the session of the private chat and starts with every        *)
(* conversation in no state. Of the second chat only /start and the         *)
(* Continue button are followed.                                            *)

GroupResumeButtons == {"group:continue_register"}

start_group ==
    LET ud == IF Get(user_data, "registration_in_progress", FALSE)
              THEN clear(user_data) ELSE user_data
        resume == /\ ~student_exists(students, U)
                  /\ \/ Get(ud, "registration_in_progress", FALSE)
                     \/ \E k \in RegistrationKeys : Has(ud, k)
    IN  /\ user_data' = ud
        /\ shown' = IF resume THEN shown \cup GroupResumeButtons ELSE shown
        /\ last' = Handled("start_group", IF resume THEN "resume" ELSE "other",
                           None, "none")
        /\ UNCHANGED <<students, users, seq, now, conv, new_conv, teclado, othervars>>

continue_register_group ==
    /\ "group:continue_register" \in shown
    /\ last' = Handled("continue_register", "ok",
                       continue_register_state(user_data), "none")
    /\ UNCHANGED <<students, users, seq, now, user_data, conv, new_conv,
                   shown, teclado, othervars>>

NextChats ==
    \/ start
    \/ cancel
    \/ register_start
    \/ continue_register
    \/ restart_register
    \/ clave_instituto
    \/ nombre_estudiante
    \/ apellidos_estudiante
    \/ nivel_escolar_callback
    \/ grado_callback
    \/ grupo_callback
    \/ datos_dinamicos_estudiante_handler
    \/ nombre_autorizado_nuevo
    \/ apellidos_autorizado_nuevo
    \/ datos_dinamicos_autorizado_handler
    \/ new_student_start
    \/ new_clave_instituto
    \/ new_apellidos_estudiante
    \/ new_nombre_estudiante
    \/ delete_confirmed
    \/ start_group
    \/ continue_register_group

SpecChats == Init /\ [][NextChats]_vars

----------------------------------------------------------------------------
(* Properties of the storage layer *)

\* the row update_student is aimed at, when there is one
C2_Target(tid, sid) == get_student(students, tid, sid)

\* an add_student call whose name pair is already stored for the identity
C2_AddDuplicates ==
    /\ last'.op = "add_student"
    /\ \E r \in students :
          /\ r.telegram_id = last'.tid
          /\ r.apellidos_estudiante = last'.apellidos
          /\ r.nombre_estudiante = last'.nombre

\* an update of the given name to the name of a sibling with the same surname
C2_UpdateDuplicates ==
    /\ last'.op = "update_student"
    /\ last'.field = "nombre_estudiante"
    /\ C2_Target(last'.tid, last'.sid) # NoRow
    /\ \E o \in students :
          /\ o.id # C2_Target(last'.tid, last'.sid).id
          /\ o.telegram_id = last'.tid
          /\ o.apellidos_estudiante = C2_Target(last'.tid, last'.sid).apellidos_estudiante
          /\ o.nombre_estudiante = last'.value

C2_NoTwoAlike ==
    \A r1 \in students : \A r2 \in students :
        (/\ r1.telegram_id = r2.telegram_id
         /\ r1.apellidos_estudiante = r2.apellidos_estudiante
         /\ r1.nombre_estudiante = r2.nombre_estudiante) => r1 = r2

\* C2: no two Student rows share (owning chat identity, surname, given name),
\* and an add or a name update that would create such a pair returns false
\* and changes neither table.
C2_UniqueStudentNames ==
    /\ []C2_NoTwoAlike
    /\ [][(C2_AddDuplicates \/ C2_UpdateDuplicates)
            => (last'.ret = FALSE /\ students' = students /\ users' = users)]_vars

\* an add was refused for a name pair that is stored, and so was a rename
C2_Witness ==
    /\ last.op = "update_student"
    /\ last.field = "nombre_estudiante"
    /\ last.value # None
    /\ last.ret = FALSE
    /\ last.sid # 0
    /\ \E r \in students : r.id = last.sid /\ r.telegram_id = last.tid
                            /\ r.nombre_estudiante # last.value
    /\ \E o \in students : o.telegram_id = last.tid /\ o.nombre_estudiante = last.value

\* C3: at most one Guardian row per chat identity; an add_student that
\* supplies guardian names for an identity that has a Guardian leaves exactly
\* one row for it, holding the supplied names.
C3_OneGuardianPerIdentity ==
    /\ [](\A u1 \in users : \A u2 \in users :
            u1.telegram_id = u2.telegram_id => u1 = u2)
    /\ [][(last'.op = "add_student" /\ last'.ret /\ last'.guardian[1] # None)
            => /\ Cardinality({u \in users' : u.telegram_id = last'.tid}) = 1
               /\ \A u \in users' : u.telegram_id = last'.tid =>
                     /\ u.apellidos_autorizado = last'.guardian[1]
                     /\ u.nombre_autorizado = last'.guardian[2]]_vars

\* a Guardian was there and the call brought other names
C3_Witness ==
    /\ last.op = "add_student"
    /\ last.ret
    /\ last.hadUser
    /\ last.guardian[2] = Luis
    /\ \E u \in users : u.telegram_id = last.tid /\ u.nombre_autorizado = Luis
    /\ Cardinality(OwnedBy(students, last.tid)) = 2

C10_StudentEditable ==
    {"clave_instituto", "nombre_estudiante", "apellidos_estudiante", "grado",
     "grupo", "nivel_escolar", "datos_estudiante"}

C10_GuardianEditable ==
    {"apellidos_autorizado", "nombre_autorizado", "datos_autorizado"}

\* C10: update_student and update_user called with a field name outside the
\* allow-list return false and leave every Student and Guardian row as it was.
C10_FieldOutsideAllowList ==
    [][(\/ last'.op = "update_student" /\ last'.field \notin C10_StudentEditable
        \/ last'.op = "update_user" /\ last'.field \notin C10_GuardianEditable)
        => (last'.ret = FALSE /\ students' = students /\ users' = users)]_vars

\* the owner column of an existing row of the caller was the field
C10_Witness ==
    /\ last.op = "update_student"
    /\ last.field = "telegram_id"
    /\ last.ret = FALSE
    /\ \E r \in students : r.id = last.sid /\ r.telegram_id = last.tid

\* C11: delete_student with the id of a student the caller owns removes that
\* row and nothing else: the caller's count drops by exactly one, every other
\* Student row and every Guardian row is as before.
C11_DeleteByIdRemovesOne ==
    [][(/\ last'.op = "delete_student"
        /\ last'.sid # 0
        /\ \E r \in students : r.telegram_id = last'.tid /\ r.id = last'.sid)
        => (/\ last'.ret = TRUE
            /\ \E r \in students :
                 /\ r.telegram_id = last'.tid /\ r.id = last'.sid
                 /\ students' = students \ {r}
            /\ get_student_count(students', last'.tid)
                 = get_student_count(students, last'.tid) - 1
            /\ users' = users)]_vars

\* one of two students of an identity with a guardian was deleted by id
C11_Witness ==
    /\ last.op = "delete_student"
    /\ last.sid # 0
    /\ last.ret = TRUE
    /\ get_student_count(students, last.tid) = 1
    /\ \A r \in students : r.id # last.sid
    /\ \E u \in users : u.telegram_id = last.tid

\* a step that keeps every Guardian row's identity in the table
C12_GuardianStays ==
    \A u \in users : \E v \in users' : v.telegram_id = u.telegram_id

\* C12: delete_student without id removes all Student rows of the identity and
\* no other, and returns true exactly when a row was removed; no call of the
\* storage layer removes a Guardian row.
C12_DeleteAllKeepsGuardians ==
    [][/\ (last'.op = "delete_student" /\ last'.sid = 0)
            => (/\ students' = students \ OwnedBy(students, last'.tid)
                /\ OwnedBy(students', last'.tid) = {}
                /\ last'.ret = (OwnedBy(students, last'.tid) # {}))
       /\ (last'.op = "delete_student" => users' = users)
       /\ C12_GuardianStays]_vars

\* C12, in the conversations: no handler, Delete registration included,
\* removes a Guardian row.
C12_BotKeepsGuardians == [][C12_GuardianStays]_vars

\* both students of an identity were deleted at once, its guardian is there
C12_Witness ==
    /\ last.op = "delete_student"
    /\ last.sid = 0
    /\ last.ret = TRUE
    /\ seq = MaxId
    /\ students = {}
    /\ \E u \in users : u.telegram_id = last.tid

\* C13: add_student ends by returning false, never by raising, when the
\* storage fails: here when the database file is locked by another connection.
C13_AddStudentNeverRaises ==
    (last.op = "locked" /\ last.method = "add_student") => last.outcome = "False"

\* C14: an add_student whose student INSERT is rejected leaves both tables as
\* they were, the guardian upsert of the same call included.
C14_FailedAddIsAtomic ==
    [][(last'.op = "add_student" /\ last'.ret = FALSE)
        => (/\ students' = students
            /\ users' = users
            /\ seq' = seq)]_vars

\* a duplicate was refused in a call that carried a guardian other than the
\* stored one
C14_Witness ==
    /\ last.op = "add_student"
    /\ last.ret = FALSE
    /\ last.guardian # <<None, None>>
    /\ \E u \in users :
          /\ u.telegram_id = last.tid
          /\ <<u.apellidos_autorizado, u.nombre_autorizado>> # last.guardian
    /\ \E r \in students :
          /\ r.telegram_id = last.tid
          /\ r.nombre_estudiante = last.nombre
          /\ r.apellidos_estudiante = last.apellidos

\* C15: deserialize_json of serialize_json of a mapping of string keys to
\* strings, numbers, booleans and None is a mapping equal to the original.
C15_RoundTrip ==
    (last.op = "deserialize_json" /\ last.roundtrip)
        => (/\ last.result.type = "dict"
            /\ last.result.value = last.original)

\* a mapping with a quoted key, a non-ASCII string and a negative number
\* went through both conversions
C15_Witness ==
    /\ last.op = "deserialize_json"
    /\ last.roundtrip
    /\ last.original = << <<KeyQ, Perez>>, <<KeyA, Num(-7)>> >>
    /\ last.result.type = "dict"
    /\ last.result.value = last.original

\* a text that json.loads reads as a mapping
C16_WellFormedMapping(t) ==
    Truthy(t) /\ loads(t).ok /\ loads(t).v.type = "dict"

\* C16: a stored text that is no well-formed serialized mapping is
\* deserialized to the empty mapping.
C16_CorruptedGivesEmptyMapping ==
    (last.op = "deserialize_json" /\ ~C16_WellFormedMapping(last.data))
        => (/\ last.result.type = "dict"
            /\ last.result.value = EmptyDict)

\* C17: for an identity with students, get_student without id gives the
\* earliest-created Student, the one with the least id of the identity; it is
\* the first element of get_students and the only row an update_student
\* without id is aimed at.
C17_FirstIsEarliestCreated ==
    \A tid \in ChatIds :
        OwnedBy(students, tid) # {}
            => (/\ \A r \in OwnedBy(students, tid) :
                      get_student(students, tid, 0).id <= r.id
                /\ get_student(students, tid, 0) = Head(get_students(students, tid))
                /\ UpdateTargets(students, tid, 0) = {get_student(students, tid, 0)})

\* the two statements of C17 that do not speak of the order of creation
C17_SameRowEverywhere ==
    \A tid \in ChatIds :
        OwnedBy(students, tid) # {}
            => (/\ get_student(students, tid, 0) = Head(get_students(students, tid))
                /\ UpdateTargets(students, tid, 0) = {get_student(students, tid, 0)})

\* a row a call with identity tid and student id sid can see
C18_Visible(sts, tid, sid) ==
    get_student(sts, tid, sid) = NoRow \/ get_student(sts, tid, sid).telegram_id = tid

\* C18: update_student and delete_student with one identity leave the rows of
\* every other identity as they are, and return false without any change when
\* the id is that of a row of another identity; get_student with the identity
\* of the caller gives no row of another, and nothing for such an id.
C18_OtherIdentityUntouched ==
    [][/\ (last'.op \in {"update_student", "delete_student"})
            => (/\ \A other \in ChatIds \ {last'.tid} :
                      OwnedBy(students', other) = OwnedBy(students, other)
                /\ (\E r \in students : r.id = last'.sid /\ r.telegram_id # last'.tid)
                      => (last'.ret = FALSE /\ students' = students))
       /\ (last'.op \in {"add_student", "update_student", "delete_student"})
            => \A sid \in 0..MaxId :
                 /\ C18_Visible(students', last'.tid, sid)
                 /\ (\E r \in students' : r.id = sid /\ r.telegram_id # last'.tid)
                       => get_student(students', last'.tid, sid) = NoRow]_vars

\* a delete and an update with the id of a row of the other identity
C18_Witness ==
    /\ last.op \in {"update_student", "delete_student"}
    /\ last.sid # 0
    /\ last.ret = FALSE
    /\ \E r \in students : r.id = last.sid /\ r.telegram_id # last.tid
    /\ OwnedBy(students, last.tid) # {}

(* The guided registration of a user who answers what is asked *)

\* the answers of the asked kind to the extra student question on screen:
\* the buttons of a question of kind opcion_multiple, a text for any other;
\* once every question was answered, the buttons still on screen
AcceptableAnswers(ud) ==
    LET campos == Get(ud, "campos_estudiante_pendientes", <<>>)
        idx == Get(ud, "campo_estudiante_actual", 0)
    IN  IF idx < Len(campos) /\ campos[idx + 1].tipo # "opcion_multiple"
        THEN {[valor |-> Strip(text), boton |-> FALSE] : text \in DatoInputs}
        ELSE {[valor |-> opt, boton |-> TRUE] : opt \in OptionButtons(ud)}

\* /start, once, to get the Register button
AnswerStart == last.op = "none" /\ start

\* Register, while the storage of the model has room for one more student
AnswerRegisterStart == seq < MaxReg /\ register_start

\* a key of the allow-list
AnswerClaveInstituto == clave_instituto /\ last'.res = "ok"

AnswerNombreEstudiante == nombre_estudiante

AnswerApellidosEstudiante == apellidos_estudiante

\* a button of the keyboard on screen, pressed while the query is fresh
AnswerNivelEscolar == nivel_escolar_callback /\ last'.res = "ok"

AnswerGrado == grado_callback /\ last'.res = "ok"

AnswerGrupo == grupo_callback /\ last'.res = "ok"

AnswerDatosEstudiante ==
    /\ conv = "DATOS_DINAMICOS_ESTUDIANTE"
    /\ \E a \in AcceptableAnswers(user_data) :
           datos_dinamicos_estudiante(a.valor, a.boton)

AnswerNombreAutorizado == nombre_autorizado_nuevo

\* the guardian surname; of the institutes of DatosConfig the one with an
\* extra guardian question asks an extra student question before it
AnswerApellidosAutorizado == apellidos_autorizado_nuevo

NextLive ==
    \/ AnswerStart
    \/ AnswerRegisterStart
    \/ AnswerClaveInstituto
    \/ AnswerNombreEstudiante
    \/ AnswerApellidosEstudiante
    \/ AnswerNivelEscolar
    \/ AnswerGrado
    \/ AnswerGrupo
    \/ AnswerDatosEstudiante
    \/ AnswerNombreAutorizado
    \/ AnswerApellidosAutorizado

\* the user goes on answering and the application handles every update it
\* is sent
SpecLive == Init /\ [][NextLive]_vars /\ WF_vars(NextLive)

----------------------------------------------------------------------------
(* Properties of the conversations *)

\* the handlers that end in completar_registro
FinalizeHandlers ==
    {"apellidos_autorizado_nuevo", "datos_dinamicos_autorizado_handler"}

\* the student and guardian that the answers of a guided flow describe, once
\* the guardian surname arrives at an institute without extra questions
C1_Answered ==
    /\ last'.op = "apellidos_autorizado_nuevo"
    /\ {"clave_instituto", "nombre_estudiante", "apellidos_estudiante",
        "nivel_escolar", "grado", "grupo", "nombre_autorizado"}
           \subseteq DOMAIN user_data
    /\ user_data["clave_instituto"] \notin DOMAIN DatosConfig
    /\ ~\E r \in OwnedBy(students, U) :
           /\ r.apellidos_estudiante = user_data["apellidos_estudiante"]
           /\ r.nombre_estudiante = user_data["nombre_estudiante"]

C1_OneStudentOneGuardian ==
    /\ last'.fin = "saved"
    /\ \E r \in students' \ students :
           /\ students' = students \cup {r}
           /\ r.telegram_id = U
           /\ r.clave_instituto = user_data["clave_instituto"]
           /\ r.nombre_estudiante = user_data["nombre_estudiante"]
           /\ r.apellidos_estudiante = user_data["apellidos_estudiante"]
           /\ r.nivel_escolar = user_data["nivel_escolar"]
           /\ r.grado = user_data["grado"]
           /\ r.grupo = user_data["grupo"]
    /\ Cardinality({u \in users' : u.telegram_id = U}) = 1
    /\ get_user(users', U).nombre_autorizado = user_data["nombre_autorizado"]
    /\ get_user(users', U).apellidos_autorizado = Strip(last'.arg)

C1_Persisted == [][C1_Answered => C1_OneStudentOneGuardian]_vars

C1_InCreationOrder ==
    LET rows == get_students(students, U)
    IN  \A i, j \in 1..Len(rows) : i < j => rows[i].id < rows[j].id

\* C1: a guided flow that answers every fixed question for an institute
\* without extra questions, with a name the identity does not have yet,
\* stores exactly one new student with the answers and one guardian with the
\* guardian names, and get_students lists the students of the identity in the
\* order they were created.
C1_GuidedFlowPersistsInOrder == C1_Persisted /\ []C1_InCreationOrder

\* C4: a key outside the allow-list sent at the institution-key step leaves
\* the conversation at that step and the session as it was, every time.
C4_InvalidKeyStays ==
    [][(/\ last'.op = "clave_instituto"
        /\ Upper(Strip(last'.arg)) \notin ClavesValidas)
       => (conv' = "CLAVE_INSTITUTO" /\ user_data' = user_data)]_vars

C4_Witness ==
    /\ last.op = "clave_instituto"
    /\ last.arg = CCT_BAD
    /\ conv = "CLAVE_INSTITUTO"

\* C5: when the institution key is the only one of the five keys in the
\* session, an answered Continue goes to the step that asks the given name
\* of the student.
C5_ContinueAfterKey ==
    [][(/\ last'.op = "continue_register"
        /\ last'.res = "ok"
        /\ DOMAIN user_data \cap RegistrationKeys = {"clave_instituto"})
       => last'.arg = "NOMBRE_ESTUDIANTE"]_vars

C6_Order ==
    <<"clave_instituto", "apellidos_estudiante", "nombre_estudiante",
      "apellidos_autorizado", "nombre_autorizado">>

C6_Step ==
    [k \in RegistrationKeys |->
        CASE k = "clave_instituto" -> "CLAVE_INSTITUTO"
          [] k = "apellidos_estudiante" -> "APELLIDOS_ESTUDIANTE"
          [] k = "nombre_estudiante" -> "NOMBRE_ESTUDIANTE"
          [] k = "apellidos_autorizado" -> "APELLIDOS_AUTORIZADO"
          [] k = "nombre_autorizado" -> "NOMBRE_AUTORIZADO"]

\* C6: whatever the session holds, an answered Continue goes to the step of
\* the first of the five keys, in the order of C6_Order, that the session does
\* not have; the step it goes to is never one whose key is in the session.
C6_ContinueFirstAbsent ==
    [][(last'.op = "continue_register" /\ last'.res = "ok")
       => \E i \in 1..Len(C6_Order) :
             /\ C6_Order[i] \notin DOMAIN user_data
             /\ \A j \in 1..(i - 1) : C6_Order[j] \in DOMAIN user_data
             /\ last'.arg = C6_Step[C6_Order[i]]]_vars

\* C7: /start of an identity without students offers Continue and Restart
\* whenever the session holds one of the five keys or the in-progress flag.
C7_StartOffersResume ==
    [][(/\ last'.op = "start"
        /\ ~student_exists(students, U)
        /\ \/ Get(user_data, "registration_in_progress", FALSE)
           \/ \E k \in RegistrationKeys : Has(user_data, k))
       => last'.res = "resume"]_vars

C8_Markers == {"registration_in_progress", "new_student_registration"}

C8_Scratch == {"datos_estudiante_extra", "datos_autorizado_extra"}

C8_OnlyMarkers(ud) ==
    \A k \in DOMAIN ud :
        k \in C8_Markers \/ (k \in C8_Scratch /\ ud[k] = EmptyDict)

C9_DuplicateRefused ==
    /\ last'.op \in FinalizeHandlers
    /\ last'.fin = "not_saved"

\* C9 as stated: after a guided flow has failed on a duplicate name, what
\* the user entered is still in the session.
C9_SessionPreserved ==
    [][C9_DuplicateRefused
       => \A k \in DOMAIN user_data :
             k \in DOMAIN user_data' /\ user_data'[k] = user_data[k]]_vars

\* C9: after a guided flow has failed on a duplicate name the session is
\* empty, the conversation has ended and the tables are as they were.
C9_SessionLost ==
    [][C9_DuplicateRefused
       => /\ DOMAIN user_data' = {}
          /\ conv' = "END"
          /\ students' = students
          /\ users' = users]_vars

C9_Witness ==
    /\ last.op \in FinalizeHandlers
    /\ last.fin = "not_saved"
    /\ DOMAIN user_data = {}
    /\ conv = "END"

\* the handler that takes the answer of each step of the guided flow
C19_Handler ==
    [END |-> "register_start",
     CLAVE_INSTITUTO |-> "clave_instituto",
     NOMBRE_ESTUDIANTE |-> "nombre_estudiante",
     APELLIDOS_ESTUDIANTE |-> "apellidos_estudiante",
     NIVEL_ESCOLAR |-> "nivel_escolar_callback",
     GRADO |-> "grado_callback",
     GRUPO |-> "grupo_callback",
     DATOS_DINAMICOS_ESTUDIANTE |-> "datos_dinamicos_estudiante_handler",
     NOMBRE_AUTORIZADO |-> "nombre_autorizado_nuevo",
     APELLIDOS_AUTORIZADO |-> "apellidos_autorizado_nuevo",
     DATOS_DINAMICOS_AUTORIZADO |-> "datos_dinamicos_autorizado_handler"]

\* the extra questions that datos_estudiante.json has for the institute of
\* the session
C19_Fields(ud, entidad) ==
    IF Has(ud, "clave_instituto") /\ ud["clave_instituto"] \in DOMAIN DatosConfig
    THEN DatosConfig[ud["clave_instituto"]][entidad]
    ELSE <<>>

\* the step after a step; END stands for the flow finalized or not begun
C19_NextStep(state, ud) ==
    CASE state = "END" -> "CLAVE_INSTITUTO"
      [] state = "CLAVE_INSTITUTO" -> "NOMBRE_ESTUDIANTE"
      [] state = "NOMBRE_ESTUDIANTE" -> "APELLIDOS_ESTUDIANTE"
      [] state = "APELLIDOS_ESTUDIANTE" -> "NIVEL_ESCOLAR"
      [] state = "NIVEL_ESCOLAR" -> "GRADO"
      [] state = "GRADO" -> "GRUPO"
      [] state = "GRUPO" ->
            IF C19_Fields(ud, "campos_estudiante") # <<>>
            THEN "DATOS_DINAMICOS_ESTUDIANTE" ELSE "NOMBRE_AUTORIZADO"
      [] state = "DATOS_DINAMICOS_ESTUDIANTE" -> "NOMBRE_AUTORIZADO"
      [] state = "NOMBRE_AUTORIZADO" -> "APELLIDOS_AUTORIZADO"
      [] state = "APELLIDOS_AUTORIZADO" ->
            IF C19_Fields(ud, "campos_autorizado") # <<>>
            THEN "DATOS_DINAMICOS_AUTORIZADO" ELSE "END"
      [] state = "DATOS_DINAMICOS_AUTORIZADO" -> "END"

\* C19: without Continue and Restart, the guided flow leaves a step only for
\* the next one in the order key, given name, surname, level, grade, group,
\* extra student questions if the institute has any, guardian given name,
\* guardian surname, extra guardian questions if any, finalize; it leaves it
\* through an answer taken by the handler of that step, and it ends through
\* completar_registro.
C19_StepsInOrder ==
    [][(last'.op \notin ResumeButtons /\ conv' # conv)
        => (/\ conv' = C19_NextStep(conv, user_data)
            /\ last'.op = C19_Handler[conv]
            /\ last'.res = "ok"
            /\ conv' = "END" => last'.fin \in {"saved", "not_saved"})]_vars

\* a flow with extra questions for both entities was finalized and saved
C19_Witness ==
    /\ last.op = "datos_dinamicos_autorizado_handler"
    /\ last.fin = "saved"
    /\ conv = "END"
    /\ \E r \in students :
          /\ r.clave_instituto = CCT_DYN
          /\ r.datos_estudiante # EmptyJson
    /\ \E u \in users : u.datos_autorizado # EmptyJson

\* the question a dynamic-field machine is at, and whether it has one
C20_Pending(ud, entidad) == Get(ud, "campos_" \o entidad \o "_pendientes", <<>>)
C20_Index(ud, entidad) == Get(ud, "campo_" \o entidad \o "_actual", 0)

C20_Asking(ud, entidad) ==
    /\ Has(ud, "datos_" \o entidad \o "_extra")
    /\ C20_Index(ud, entidad) < Len(C20_Pending(ud, entidad))

\* the answer valor went under the name of the current field and the index
\* moved on by one
C20_Stored(entidad, valor) ==
    LET campo == C20_Pending(user_data, entidad)[C20_Index(user_data, entidad) + 1].campo
        extra == user_data'["datos_" \o entidad \o "_extra"]
    IN  /\ \E i \in 1..Len(extra) : extra[i] = <<campo, valor>>
        /\ C20_Index(user_data', entidad) = C20_Index(user_data, entidad) + 1

\* the answer was the one to the last question
C20_Last(entidad) ==
    C20_Index(user_data, entidad) + 1 = Len(C20_Pending(user_data, entidad))

\* an answer to an extra question of the student, delivered to the handler
C20_StudentAnswer ==
    (/\ last'.op = "datos_dinamicos_estudiante_handler"
     /\ last'.res # "expired"
     /\ C20_Asking(user_data, "estudiante"))
        => (/\ "datos_estudiante_extra" \in DOMAIN user_data'
            /\ C20_Stored("estudiante", last'.arg)
            /\ conv' = IF C20_Last("estudiante") THEN "NOMBRE_AUTORIZADO"
                       ELSE "DATOS_DINAMICOS_ESTUDIANTE")

\* an answer to an extra question of the guardian
C20_GuardianAnswer ==
    (/\ last'.op = "datos_dinamicos_autorizado_handler"
     /\ C20_Asking(user_data, "autorizado"))
        => IF C20_Last("autorizado")
           THEN \* completar_registro ran and ended the conversation
                last'.fin \in {"saved", "not_saved"} /\ conv' = "END"
           ELSE /\ C20_Stored("autorizado", Strip(last'.arg))
                /\ conv' = "DATOS_DINAMICOS_AUTORIZADO"

\* C20: in the dynamic-field machine of either entity every answer, a text or
\* a selected option, is stored under the name of the current field and moves
\* the index on by one, and the answer to the last question leaves the machine
\* for the next step: the guardian given name after the student's questions,
\* finalize after the guardian's.
C20_AnswerStoresAdvancesExits ==
    [][C20_StudentAnswer /\ C20_GuardianAnswer]_vars

\* what holds of C20: the same for the answers that are texts
C20_TextAnswers ==
    [][/\ (last'.op = "datos_dinamicos_estudiante_handler"
             /\ last'.arg \in OptionButtons(user_data))
           \/ C20_StudentAnswer
       /\ C20_GuardianAnswer]_vars

\* C23: an invalid key at the institution-key step loses nothing: the session
\* after the rejection is the session before it, and storage is untouched.
C23_RejectionKeepsSession ==
    [][(last'.op = "clave_instituto" /\ last'.res = "rejected")
        => (/\ user_data' = user_data
            /\ UNCHANGED <<students, users, seq>>)]_vars

\* a key was rejected while the session held the marks of a begun flow
C23_Witness ==
    /\ last.op = "clave_instituto"
    /\ last.res = "rejected"
    /\ conv = "CLAVE_INSTITUTO"
    /\ Has(user_data, "registration_in_progress")
    /\ Has(user_data, "datos_estudiante_extra")

\* the student that completes the "add another student" flow with the given
\* name of the step just taken: the texts of the session as they are
C22_Student(r) ==
    /\ r.telegram_id = U
    /\ r.id = seq + 1
    /\ r.clave_instituto = user_data["clave_instituto"]
    /\ r.apellidos_estudiante = user_data["apellidos_estudiante"]
    /\ r.nombre_estudiante = last'.arg

\* the identity already has a student with the names of the flow
C22_Duplicate ==
    \E r \in students :
        /\ r.telegram_id = U
        /\ r.apellidos_estudiante = user_data["apellidos_estudiante"]
        /\ r.nombre_estudiante = last'.arg

\* the steps of the flow keep the texts as sent
C22_Verbatim ==
    /\ last'.op = "new_clave_instituto"
          => user_data'["clave_instituto"] = last'.arg
    /\ last'.op = "new_apellidos_estudiante"
          => user_data'["apellidos_estudiante"] = last'.arg

\* without a Guardian row nothing is inserted and the session is cleared
C22_NoGuardian ==
    (last'.op = "new_nombre_estudiante" /\ get_user(users, U) = NoRow)
        => (/\ UNCHANGED <<students, users, seq>>
            /\ last'.fin = "no_user"
            /\ DOMAIN user_data' = {}
            /\ new_conv' = "END")

\* the last step of a flow whose three texts are there, with a Guardian row
C22_Completed ==
    /\ last'.op = "new_nombre_estudiante"
    /\ last'.res = "ok"
    /\ get_user(users, U) # NoRow

\* C22 as stated: completing the flow inserts one Student with the three texts
\* verbatim and leaves the Guardian row as it is; without a Guardian row it
\* inserts nothing, reports the error and clears the session.
C22_AlwaysInsertsOne ==
    [][/\ C22_Verbatim
       /\ C22_NoGuardian
       /\ C22_Completed
            => (/\ users' = users
                /\ \E r \in students' \ students :
                      C22_Student(r) /\ students' = students \cup {r})]_vars

\* C22, amended: the same, and when the identity already has a student with
\* that surname and given name the flow inserts nothing.
C22_InsertsOneUnlessDuplicate ==
    [][/\ C22_Verbatim
       /\ C22_NoGuardian
       /\ C22_Completed
            => (/\ users' = users
                /\ DOMAIN user_data' = {}
                /\ IF C22_Duplicate
                   THEN students' = students /\ last'.fin = "not_saved"
                   ELSE /\ last'.fin = "saved"
                        /\ \E r \in students' \ students :
                              C22_Student(r) /\ students' = students \cup {r})]_vars

\* a second student was added with a key that is neither trimmed nor listed,
\* beside a stored guardian
C22_Witness ==
    /\ last.op = "new_nombre_estudiante"
    /\ last.fin = "saved"
    /\ get_user(users, U) # NoRow
    /\ \E r \in students :
          /\ r.id = seq
          /\ r.clave_instituto = Space \o CCT_BAD
          /\ ~validate_cct(r.clave_instituto)
    /\ get_student_count(students, U) = 2

\* the flow ended at an identity that has a student and no Guardian row
C22_WitnessNoGuardian ==
    /\ last.op = "new_nombre_estudiante"
    /\ last.fin = "no_user"
    /\ get_user(users, U) = NoRow
    /\ student_exists(students, U)

\* the callbacks of the level, grade and group keyboards
C24_KeyboardCallbacks ==
    {"nivel_escolar_callback", "grado_callback", "grupo_callback"}

\* C24: an expired callback query ends the handler without an error that
\* leaves it, without a change of the session and without a step entered.
C24_ExpiredEndsGracefully ==
    [][/\ last'.res = "expired"
            => (/\ user_data' = user_data
                /\ conv' = conv
                /\ new_conv' = new_conv)
       /\ last'.op \in C24_KeyboardCallbacks => last'.res # "raised"]_vars

\* C26: every list get_students_with_authorized can return has one entry for
\* each stored student, with the names and chat id of its guardian, newest
\* first.
C26_EveryStudentListed ==
    \A res \in get_students_with_authorized(students, users) :
        /\ Len(res) = Cardinality(students)
        /\ \A s \in students :
              \E i \in 1..Len(res) :
                  /\ res[i].chat_id = s.telegram_id
                  /\ res[i].nombre_estudiante = s.nombre_estudiante
                  /\ res[i].apellidos_estudiante = s.apellidos_estudiante

\* the update of the step returned True
C30_Updated(op) == last'.op = op /\ last'.ret = TRUE

\* C30: an update_student that returns True changes the named field of one
\* row of the caller, the row of the given id when an id is given, and
\* nothing else in students or users; an update_user that returns True
\* changes the named field of the caller's row of users and nothing else.
C30_UpdateChangesOneField ==
    [][/\ C30_Updated("update_student") =>
            /\ last'.field \in allowed_fields_student
            /\ users' = users
            /\ \E t \in students :
                  /\ t.telegram_id = last'.tid
                  /\ last'.sid # 0 => t.id = last'.sid
                  /\ students' = (students \ {t})
                        \cup {[t EXCEPT ![last'.field] = last'.value]}
       /\ C30_Updated("update_user") =>
            /\ last'.field \in allowed_fields_user
            /\ students' = students
            /\ \E u \in users :
                  /\ u.telegram_id = last'.tid
                  /\ users' = (users \ {u})
                        \cup {[u EXCEPT ![last'.field] = last'.value]}]_vars

\* an update_student returned True and changed a row while a row of the
\* other identity and a row of users were stored
C30_Witness ==
    /\ last.op = "update_student"
    /\ last.ret = TRUE
    /\ \E s \in students : s.telegram_id = last.tid /\ s.nombre_estudiante = Ana
    /\ \E s \in students : s.telegram_id # last.tid
    /\ users # {}

\* the grades '1' to '3', '1' to '6' and '1' to '8', written out
C29_Tres == <<<<49>>, <<50>>, <<51>>>>
C29_Seis == C29_Tres \o <<<<52>>, <<53>>, <<54>>>>
C29_Ocho == C29_Seis \o <<<<55>>, <<56>>>>

\* the grades the table gives a level written in lower case
C29_Table(nivel) ==
    IF nivel \in {Maternal, Preescolar, Secundaria, Bachillerato} THEN C29_Tres
    ELSE IF nivel = Primaria THEN C29_Seis
    ELSE IF nivel = Universidad THEN C29_Ocho
    ELSE C29_Seis

\* C29: get_grados_por_nivel returns grades 1-3 for maternal, preescolar,
\* secundaria and bachillerato, 1-6 for primaria, 1-8 for universidad and 1-6
\* for any other level, whatever the case of the letters; the group keyboard
\* offers exactly A to F.
C29_GradesAndGroups ==
    [][/\ last'.op = "get_grados_por_nivel" =>
            last'.ret = C29_Table(Lower(last'.nivel))
       /\ last'.op = "grado" =>
            /\ \E i \in 1..Len(teclado) : last'.grado = teclado[i]
            /\ {teclado'[i] : i \in 1..Len(teclado')} =
                   {<<c>> : c \in 65..70}
            /\ Len(teclado') = 6]_vars

\* the grades of UNIVERSIDAD were asked for, eight came, and a group was
\* chosen after the eighth
C29_Witness ==
    /\ last.op = "grupo"
    /\ last.nivel = Upper(Universidad)
    /\ last.grado = <<56>>
    /\ last.grupo = <<70>>

\* the file the handler of the step reads is not in place
C25_NotInPlace(f) == files[f] # "ok"

\* C25: while cct.json is missing or unreadable every key is rejected and
\* the conversation stays at the key step; while datos_estudiante.json is
\* missing or unreadable the group leads to the guardian's given name and
\* the guardian's surname to the end of the registration; the loading of
\* the file raises in no handler.
C25_MissingFilesNeverRaise ==
    [][/\ (last'.op = "clave_instituto" /\ C25_NotInPlace("cct")) =>
            (last'.res = "rejected" /\ conv' = "CLAVE_INSTITUTO")
       /\ (last'.op = "grupo_callback" /\ C25_NotInPlace("datos")) =>
            /\ last'.res # "unreadable"
            /\ last'.res = "ok" => conv' = "NOMBRE_AUTORIZADO"
       /\ (last'.op = "apellidos_autorizado_nuevo" /\ C25_NotInPlace("datos")) =>
            /\ last'.fin # "unreadable"
            /\ last'.res = "ok" => last'.fin \in {"saved", "not_saved"}]_vars

\* the processes that hold the instance lock and run the bot
C27_Running == {p \in Procs : procs[p].pc = "running"}

\* C27: at most one process runs the bot at a time, whatever the order in
\* which the processes start, run and exit.
C27_AtMostOneRunning == Cardinality(C27_Running) <= 1

\* the storage call of the step has returned or raised
C28_Returned == last'.op = "returned"

\* what the whole call makes of the tables it found, as one statement
C28_Whole(call, base) ==
    IF call.method = "add_student"
    THEN LET r == add_student(base.students, base.users, base.seq, now, call.a)
         IN  Tables(r.students, r.users, r.seq)
    ELSE Tables(delete_student(base.students, call.a.telegram_id,
                               call.a.student_id).students,
                base.users, base.seq)

\* C28: a storage call opens a connection, executes, ends with exactly one
\* of commit and rollback and closes: when it has returned or raised no
\* connection of it is open, the stored tables are those it found or those
\* of the whole call, and until the commit no write of it is stored.
C28_CommitOrRollbackThenClose ==
    [][/\ C28_Returned =>
            /\ connection' = NoConnection
            /\ last'.log \in {<<>>, <<"connect", "commit", "close">>,
                              <<"connect", "rollback", "close">>}
            /\ (last'.log = <<>> \/ last'.log[2] = "rollback") =>
                  /\ Tables(students', users', seq') = last'.base
                  /\ last'.res \in {"False", "raised"}
            /\ (last'.log # <<>> /\ last'.log[2] = "commit") =>
                  /\ Tables(students', users', seq') =
                         C28_Whole(last'.call, last'.base)
                  /\ last'.res \in {"True", "False"}
                  /\ last'.method = "add_student" => last'.res = "True"
       /\ (students' # students \/ users' # users \/ seq' # seq) =>
            (last'.op = "commit" /\ connection'.pc = "ended")]_vars

\* an add_student with guardian names was rolled back after its INSERT into
\* users: the call returned False and the guardian is not stored
C28_Witness ==
    /\ last.op = "returned"
    /\ last.method = "add_student"
    /\ last.res = "False"
    /\ last.log = <<"connect", "rollback", "close">>
    /\ Truthy(last.call.a.nombre_autorizado)
    /\ last.base.users = {}
    /\ users = {}
    /\ connection = NoConnection

\* the button pressed in the step is the i-th field button of a student
C21_Button(i) == StartsWith(last'.arg, EditFieldButtons[i])

\* a text was received for a field and the update was reported as done
C21_Updated ==
    /\ last'.op = "edit_value_receive"
    /\ last'.res = "ok"

\* the row of the student named in the session, after the step
C21_Row == get_student(students', U, last'.student_id)

\* C21: every field button of the edit menu leads to the prompt for the new
\* value, and the text sent then is stored in that field as it was sent.
C21_EveryFieldIsEdited ==
    [][/\ last'.op = "edit_field_select" =>
            (last'.res = "ok" /\ edit_conv' = "EDIT_VALUE")
       /\ (C21_Updated /\ last'.field_type = T_estudiante) =>
            C21_Row[field_full_estudiante(last'.field)] = last'.arg
       /\ (C21_Updated /\ last'.field_type = T_autorizado) =>
            get_user(users', U)[Column(last'.field \o <<95>> \o T_autorizado)]
                = last'.arg]_vars

\* the buttons whose callback_data edit_field_select can read: given name,
\* surname, grade and group of the student
C21_ReadButtons == {2, 3, 5, 6}

\* what does hold: the four buttons of C21_ReadButtons lead to the prompt,
\* the other four raise, and a text reported as stored is in the field as
\* it was sent
C21_FourFieldsAreEdited ==
    [][/\ last'.op = "edit_field_select" =>
            /\ (\E i \in C21_ReadButtons : C21_Button(i)) =>
                  (last'.res = "ok" /\ edit_conv' = "EDIT_VALUE")
            /\ (\E i \in (1..8) \ C21_ReadButtons : C21_Button(i)) =>
                  (last'.res = "raised" /\ edit_conv' = "END"
                   /\ user_data' = user_data)
       /\ C21_Updated =>
            /\ last'.field_type = T_estudiante
            /\ C21_Row[field_full_estudiante(last'.field)] = last'.arg
            /\ users' = users]_vars

\* C31: whenever completar_registro is called the session holds the
\* institution key, both names of the student and both names of the guardian,
\* so that it never ends with a KeyError.
C31_FinalizeHasAllKeys ==
    [][last'.op \in FinalizeHandlers => last'.fin # "raised"]_vars

\* C32: while the registration conversation waits for the answer to an extra
\* question of the student or of the guardian, the session holds the scratch
\* map of that entity, whichever entry point started the conversation.
C32_ScratchMapPresent ==
    /\ conv = "DATOS_DINAMICOS_ESTUDIANTE" => Has(user_data, "datos_estudiante_extra")
    /\ conv = "DATOS_DINAMICOS_AUTORIZADO" => Has(user_data, "datos_autorizado_extra")

\* C33: every student row that completar_registro of the guided flow stores
\* carries an institution key of the allow-list, in upper case, however the
\* conversation was entered and resumed.
C33_FinalizeStoresAllowedKey ==
    [][(last'.op \in FinalizeHandlers /\ last'.fin = "saved")
       => \A r \in students' \ students : r.clave_instituto \in ClavesValidas]_vars

\* C34: in every storage state the flows of the bot reach, each student row
\* has a guardian row of the same chat identity.
C34_StudentHasGuardian ==
    \A s \in students : \E u \in users : u.telegram_id = s.telegram_id

\* a second student stored by the add-another-student flow, next to the one
\* of the guided flow
C34_Witness ==
    /\ last.op = "new_nombre_estudiante"
    /\ last.fin = "saved"
    /\ Cardinality(OwnedBy(students, U)) = 2
    /\ get_user(users, U) # NoRow

\* C35: in every storage state the flows of the bot reach, each student whose
\* level, grade and group are set has a grade of get_grados_por_nivel of its
\* level and a group from A to F.
C35_GradeAndGroupOfLevel ==
    \A s \in students :
        (s.nivel_escolar # None /\ s.grado # None /\ s.grupo # None)
        => /\ \E i \in 1..Len(get_grados_por_nivel(s.nivel_escolar)) :
                  get_grados_por_nivel(s.nivel_escolar)[i] = s.grado
           /\ \E i \in 1..Len(grupos) : grupos[i] = s.grupo

\* C36: the value that the scratch map of the student holds for an extra
\* question of kind opcion_multiple is one of the options configured for that
\* question; an answer of another kind is not stored under it.
C36_StoredValueOfKind ==
    LET campos == Get(user_data, "campos_estudiante_pendientes", <<>>)
        extra == Get(user_data, "datos_estudiante_extra", EmptyDict)
    IN  \A i \in 1..Len(extra), k \in 1..Len(campos) :
            (campos[k].campo = extra[i][1] /\ campos[k].tipo = "opcion_multiple")
            => \E j \in 1..Len(campos[k].opciones) :
                   campos[k].opciones[j] = extra[i][2]

\* the names of the first n questions of a list of extra questions
C37_Campos(campos, n) == {campos[k].campo : k \in 1..n}

\* the names a scratch map holds a value for
C37_Keys(extra) == {extra[i][1] : i \in 1..Len(extra)}

\* the index of a list of extra questions is within the list and the scratch
\* map holds a value for the questions before the index and for no other
C37_Aligned(campos, idx, extra) ==
    /\ 0 <= idx
    /\ idx <= Len(campos)
    /\ C37_Keys(extra) = C37_Campos(campos, idx)

C37_Estudiante ==
    conv = "DATOS_DINAMICOS_ESTUDIANTE"
    => C37_Aligned(Get(user_data, "campos_estudiante_pendientes", <<>>),
                   Get(user_data, "campo_estudiante_actual", 0),
                   Get(user_data, "datos_estudiante_extra", EmptyDict))

C37_Autorizado ==
    conv = "DATOS_DINAMICOS_AUTORIZADO"
    => C37_Aligned(Get(user_data, "campos_autorizado_pendientes", <<>>),
                   Get(user_data, "campo_autorizado_actual", 0),
                   Get(user_data, "datos_autorizado_extra", EmptyDict))

\* the student questions are left for the guardian name with a value for
\* every question of the list
C37_ExitEstudiante ==
    (conv = "DATOS_DINAMICOS_ESTUDIANTE" /\ conv' = "NOMBRE_AUTORIZADO")
    => C37_Keys(Get(user_data', "datos_estudiante_extra", EmptyDict)) =
           C37_Campos(Get(user_data', "campos_estudiante_pendientes", <<>>),
                      Len(Get(user_data', "campos_estudiante_pendientes", <<>>)))

\* the guardian questions are left for completar_registro with a value for
\* every question of the list, the last one being the answer just sent
C37_ExitAutorizado ==
    (conv = "DATOS_DINAMICOS_AUTORIZADO" /\ last'.op = "datos_dinamicos_autorizado_handler"
        /\ last'.fin = "saved")
    => LET campos == Get(user_data, "campos_autorizado_pendientes", <<>>)
           extra == Get(user_data, "datos_autorizado_extra", EmptyDict)
       IN  /\ C37_Keys(extra) \cup {campos[Len(campos)].campo} =
                  C37_Campos(campos, Len(campos))
           /\ get_user(users', U).datos_autorizado =
                  serialize_json(DictPut(extra, campos[Len(campos)].campo,
                                         Strip(last'.arg)))

C38_GuidedFlowCompletes ==
    (last.op = "register_start")
        ~> (last.op \in FinalizeHandlers /\ last.fin \in {"saved", "not_saved"})

====
